---- MODULE Spec2Model ----
(***************************************************************************)
(* Litmus worker: the run orchestrator (execute_tests_and_store_results),  *)
(* the single-shot runner (execute_test_run), the mission runner           *)
(* (execute_test_mission) and the helpers they call, as a state machine.   *)
(*                                                                         *)
(* The persisted store (Firestore), the HTTP target and the judge model    *)
(* are the environment: every call to them either returns one of the       *)
(* values the code distinguishes, or raises.                               *)
(*                                                                         *)
(* src/worker/main.py line 162 is not valid Python as written              *)
(* ({files_prefix}{match}); the model reads it as the f-string it stands   *)
(* for, which none of the modelled paths depends on.                       *)
(***************************************************************************)
EXTENDS Integers, Sequences, FiniteSets, TLC

\* ------------------------------------------------------------------ bounds
\* Largest number of stored test cases of a run.
MaxCases == 2
\* Largest mission_duration of a run.
MaxDuration == 2
\* The number of stored test cases of a large run: one whose document ids
\* do not all have the same number of digits.
LargeRun == 10

\* ------------------------------------------------------------ value spaces
None == "None"
\* A mission_duration that is no integer (the template left it out).
NoDuration == 0 - 1

TemplateTypes == {"Test Run", "Test Mission"}
\* What the judge proposes as the next user input of a mission: in turn t
\* (from 0) a query it proposed in no earlier turn.
QueryOfTurn(t) == t + 1
Queries == {QueryOfTurn(t) : t \in 0..MaxDuration}
NoQuery == 0
\* JSON bodies the target answers with, by what the runners read of them:
\* the output field is there, it is not, or the body has status "Failed".
Bodies == {"Answer", "NoField", "StatusFailed"}
\* The result execute_request returns for a failed request (main.py 117, 123).
FailedResult == "RequestFailed"

RECURSIVE Digits(_)
\* Decimal digits of k, most significant first: the tail of "test_case_<k>".
Digits(k) ==
    IF k < 10 THEN <<k>> ELSE Append(Digits(k \div 10), k % 10)

\* Document ids compare as strings: "test_case_10" < "test_case_2".
DocIdLess(a, b) ==
    LET da == Digits(a)
        db == Digits(b)
    IN  \E p \in 1..(Len(da) + 1) :
            /\ \A q \in 1..(p - 1) : q <= Len(db) /\ da[q] = db[q]
            /\ \/ p = Len(da) + 1 /\ Len(db) >= p
               \/ p <= Len(da) /\ p <= Len(db) /\ da[p] < db[p]

\* The ordinals of the n stored test cases in the order stream() yields them
\* (ascending document id).
StreamOrder(n) ==
    [j \in 1..n |->
        CHOOSE k \in 1..n : Cardinality({m \in 1..n : DocIdLess(m, k)}) = j - 1]

\* ------------------------------------------------------------- HTTP target
SupportedMethods == {"POST", "GET", "PUT", "DELETE"}
Methods == SupportedMethods \cup {"PATCH"}
HttpStatuses == {200, 500}
NotJson == "NotJson"
NoStatusCode == 0 - 1

\* A request descriptor as execute_request reads it: tracing_id is 0 when the
\* descriptor carries none, headers is None when the descriptor has no headers.
MaxTracingId == IF LargeRun > MaxCases THEN LargeRun ELSE MaxCases
Descriptors ==
    [method : Methods, headers : {None, "dict"}, tracing_id : 0..MaxTracingId]

\* What the network does with one request: no response at all, or a response
\* with a status code and a body that is JSON (one of Bodies) or is not.
NetOutcomes ==
    {[kind |-> "NoResponse", status_code |-> 0, body |-> NotJson]}
    \cup [kind : {"Response"}, status_code : HttpStatuses,
          body : Bodies \cup {NotJson}]

Returned(result, status_code, logs) ==
    [raised |-> FALSE, result |-> result, status_code |-> status_code,
     logs |-> logs]

Raises(logs) ==
    [raised |-> TRUE, result |-> None, status_code |-> NoStatusCode,
     logs |-> logs]

\* execute_request: the (result, status_code) pair it returns, or that it
\* raises, and how many execution log entries it emitted.
execute_request(request_data, net) ==
    IF request_data.tracing_id # 0 /\ request_data.headers = None
    THEN Raises(0)
    ELSE IF request_data.method \notin SupportedMethods
    THEN Returned(FailedResult, 0, 1)
    ELSE IF net.kind = "NoResponse"
    THEN Returned(FailedResult, 0, 1)
    ELSE IF net.status_code >= 400
    THEN Returned(FailedResult, net.status_code, 1)
    ELSE IF net.body = NotJson
    THEN Returned(FailedResult, net.status_code, 2)
    ELSE Returned(net.body, net.status_code, 1)

\* Mutant: the descriptors are passed on as they were stored.
AsStored(tid) ==
    [method : Methods, headers : {None, "dict"}, tracing_id : {0}]

\* The descriptors a caller passes to execute_request after
\* request_data["tracing_id"] = tracing_id (main.py 228, 336, 464, 480).
WithTracingId(tid) ==
    [method : Methods, headers : {None, "dict"}, tracing_id : {tid}]

\* The tracing identifiers those descriptors carry.
TracingIds(tid) == {d.tracing_id : d \in WithTracingId(tid)}

\* Every outcome one call of execute_request with tracing id tid can have.
RequestOutcomes(tid) ==
    {execute_request(d, n) : d \in WithTracingId(tid), n \in NetOutcomes}

\* Mutant: the check of the response object is missing.
ReportsFailureNever(actual_response) == FALSE

\* The response object says the request failed (main.py 249, 344).
ReportsFailure(actual_response) ==
    actual_response \in {FailedResult, "StatusFailed"}

\* Mutant: every response counts as one the filter resolved something in.
FilterResolvesAlways(actual_response) == TRUE

\* filter_json(actual_response, template_output_field) on the bodies above:
\* the output field resolves only in a body that has it.
FilterResolves(actual_response) ==
    actual_response = "Answer"

\* -------------------------------------------------------------- filter_json
\* Largest length of a list in a JSON document, and largest bracketed index
\* of a path (an index equal to MaxLen is outside every list).
MaxLen == 2

\* Text (a key, a path, a string value) is the sequence of its characters.
DigitChars == <<"0", "1", "2", "3", "4", "5", "6", "7", "8", "9">>

Has(text, c) == \E p \in 1..Len(text) : text[p] = c

\* The position of the first c in text.
Find(text, c) ==
    CHOOSE p \in 1..Len(text) :
        text[p] = c /\ \A q \in 1..(p - 1) : text[q] # c

RECURSIVE Split(_, _)
\* text.split(c): the pieces of text between the occurrences of c.
Split(text, c) ==
    IF ~Has(text, c) THEN <<text>>
    ELSE <<SubSeq(text, 1, Find(text, c) - 1)>>
            \o Split(SubSeq(text, Find(text, c) + 1, Len(text)), c)

\* text.split(c, 1) of a text that holds c: what is before and after the
\* first c.
SplitOnce(text, c) ==
    <<SubSeq(text, 1, Find(text, c) - 1),
      SubSeq(text, Find(text, c) + 1, Len(text))>>

\* a + c + b, as in ",".join([a, b]).
Join(a, c, b) == a \o <<c>> \o b

RECURSIVE replace(_, _, _)
\* text.replace(old, new), for an old that is not empty: every occurrence of
\* old, from the left, gives way to new.
replace(text, old, new) ==
    IF Len(text) < Len(old) THEN text
    ELSE IF SubSeq(text, 1, Len(old)) = old
    THEN new \o replace(SubSeq(text, Len(old) + 1, Len(text)), old, new)
    ELSE <<Head(text)>> \o replace(Tail(text), old, new)

\* sub in text.
Contains(text, sub) ==
    \E p \in 0..(Len(text) - Len(sub)) : SubSeq(text, p + 1, p + Len(sub)) = sub

\* text.find(c, start): the index (from 0) of the first c at or after start,
\* -1 if there is none.
find(text, c, start) ==
    IF \E q \in start..(Len(text) - 1) : text[q + 1] = c
    THEN CHOOSE q \in start..(Len(text) - 1) :
            text[q + 1] = c /\ \A r \in start..(q - 1) : text[r + 1] # c
    ELSE 0 - 1

\* Mutant: the first occurrence is taken for the last.
rfindFirst(text, c) == find(text, c, 0)

\* text.rfind(c): the index (from 0) of the last c, -1 if there is none.
rfind(text, c) ==
    IF Has(text, c)
    THEN CHOOSE q \in 0..(Len(text) - 1) :
            text[q + 1] = c /\ \A r \in (q + 1)..(Len(text) - 1) : text[r + 1] # c
    ELSE 0 - 1

\* text[a:b] for indices a >= 0 and b >= -1: a negative b counts from the end.
Slice(text, a, b) ==
    SubSeq(text, a + 1, IF b < 0 THEN Len(text) + b ELSE b)

DigitOf(c) == CHOOSE v \in 0..9 : DigitChars[v + 1] = c

IsDigit(c) == \E v \in 0..9 : DigitChars[v + 1] = c

\* int(text) accepts text that is a sequence of digits (with a sign).
IsInt(text) ==
    LET digits == IF text # <<>> /\ text[1] = "-" THEN Tail(text) ELSE text
    IN  digits # <<>> /\ \A p \in 1..Len(digits) : IsDigit(digits[p])

RECURSIVE NatOf(_)
NatOf(digits) ==
    IF digits = <<>> THEN 0
    ELSE 10 * NatOf(SubSeq(digits, 1, Len(digits) - 1))
            + DigitOf(digits[Len(digits)])

IntOf(text) ==
    IF text[1] = "-" THEN 0 - NatOf(Tail(text)) ELSE NatOf(text)

\* str(j) of an index 0 <= j <= 9.
IndexText(j) == <<DigitChars[j + 1]>>

\* A JSON value as json() gives it: None, a number, a string, a list or a
\* dict. Field t is its type; d, l, s and n hold the content of a dict (a
\* function from keys to values), a list, a string and a number.
JNull == [t |-> "null", d |-> <<>>, l |-> <<>>, s |-> <<>>, n |-> 0]
JNum(n) == [JNull EXCEPT !.t = "num", !.n = n]
JStr(s) == [JNull EXCEPT !.t = "str", !.s = s]
JList(l) == [JNull EXCEPT !.t = "list", !.l = l]
JDict(d) == [JNull EXCEPT !.t = "dict", !.d = d]
EmptyDict == JDict(<<>>)

\* Mutant: the value is stored as a list of one element.
WithEntryAsList(d, key, value) ==
    [k \in (DOMAIN d) \cup {key} |-> IF k = key THEN JList(<<value>>) ELSE d[k]]

\* The dict d with d[key] = value.
WithEntry(d, key, value) ==
    [k \in (DOMAIN d) \cup {key} |-> IF k = key THEN value ELSE d[k]]

\* One Python expression: its value, a raised exception, or (for a step of
\* the traversal) the break of lines 541 and 548.
Value(v) == [raised |-> FALSE, broke |-> FALSE, error |-> None, value |-> v]
Raise(e) == [raised |-> TRUE, broke |-> FALSE, error |-> e, value |-> JNull]
Break == [raised |-> FALSE, broke |-> TRUE, error |-> None, value |-> JNull]

\* len(x).
len(x) ==
    IF x.t = "dict" THEN Value(JNum(Cardinality(DOMAIN x.d)))
    ELSE IF x.t = "list" THEN Value(JNum(Len(x.l)))
    ELSE IF x.t = "str" THEN Value(JNum(Len(x.s)))
    ELSE Raise("TypeError")

\* key in x, for a string key: a key of a dict, an element of a list, a
\* substring of a string.
ContainsKey(x, key) ==
    IF x.t = "dict" THEN key \in DOMAIN x.d
    ELSE IF x.t = "list"
    THEN \E p \in 1..Len(x.l) : x.l[p].t = "str" /\ x.l[p].s = key
    ELSE \E p \in 0..(Len(x.s) - Len(key)) : SubSeq(x.s, p + 1, p + Len(key)) = key

\* x[key] for a string key that `key in x` found.
GetItem(x, key) ==
    IF x.t = "dict" THEN Value(x.d[key]) ELSE Raise("TypeError")

\* x[index] for an integer index >= 0.
GetIndex(x, index) ==
    IF x.t = "list"
    THEN IF index < Len(x.l) THEN Value(x.l[index + 1]) ELSE Raise("IndexError")
    ELSE IF x.t = "str"
    THEN IF index < Len(x.s) THEN Value(JStr(<<x.s[index + 1]>>))
         ELSE Raise("IndexError")
    ELSE IF x.t = "dict" THEN Raise("KeyError")
    ELSE Raise("TypeError")

\* Lines 535-541: a key with brackets, on a current_data that is not None.
AccessIndexed(current_data, key_text) ==
    LET key == SplitOnce(key_text, "[")[1]
        inner == SplitOnce(key_text, "[")[2]
        digits == SubSeq(inner, 1, Len(inner) - 1)
        index == IntOf(digits)
        item == GetItem(current_data, key)
    IN  IF ~IsInt(digits) THEN Raise("ValueError")
        ELSE IF index < 0 THEN Break
        ELSE IF len(current_data).raised THEN Raise("TypeError")
        ELSE IF ~(index < len(current_data).value.n) THEN Break
        ELSE IF ~ContainsKey(current_data, key) THEN Break
        ELSE IF item.raised THEN item
        ELSE GetIndex(item.value, index)

\* Lines 543-548: a plain key, on a current_data that is not None.
AccessKey(current_data, key) ==
    IF current_data.t = "num" THEN Raise("TypeError")
    ELSE IF ~ContainsKey(current_data, key) THEN Break
    ELSE GetItem(current_data, key)

\* Lines 533-548: one pass of the loop over the keys.
Access(current_data, key) ==
    IF Has(key, "[") /\ Has(key, "]")
    THEN AccessIndexed(current_data, key)
    ELSE AccessKey(current_data, key)

RECURSIVE Traverse(_, _)
\* Lines 529-548: the loop over the keys of one path; the value it leaves
\* in current_data (None after a break), or the exception it raised. A pass
\* with current_data None does nothing.
Traverse(current_data, keys) ==
    IF keys = <<>> THEN Value(current_data)
    ELSE IF current_data = JNull THEN Traverse(current_data, Tail(keys))
    ELSE LET step == Access(current_data, Head(keys))
         IN  IF step.raised THEN step
             ELSE IF step.broke THEN Value(JNull)
             ELSE Traverse(step.value, Tail(keys))

RECURSIVE FilterPaths(_, _, _)
\* Lines 527-554: the loop over the paths, from new_data on.
FilterPaths(data, filter_paths, new_data) ==
    IF filter_paths = <<>> THEN Value(JDict(new_data))
    ELSE LET filter_path == Head(filter_paths)
             found == Traverse(data, Split(filter_path, "."))
         IN  IF found.raised THEN found
             ELSE IF found.value # JNull
             THEN FilterPaths(data, Tail(filter_paths),
                              WithEntry(new_data, filter_path, found.value))
             ELSE FilterPaths(data, Tail(filter_paths), new_data)

\* A filter_pathx argument: None, or a text.
NoPath == [given |-> FALSE, text |-> <<>>]
PathText(text) == [given |-> TRUE, text |-> text]

\* Mutant: only None counts as no path.
FalsyOnlyNone(filter_pathx) == ~filter_pathx.given

\* Line 521: not filter_pathx.
Falsy(filter_pathx) == ~filter_pathx.given \/ filter_pathx.text = <<>>

\* filter_json(data, filter_pathx): what it returns, or that it raises.
filter_json(data, filter_pathx) ==
    IF Falsy(filter_pathx) THEN Value(data)
    ELSE FilterPaths(data, Split(filter_pathx.text, ","), <<>>)

\* The JSON documents filter_json is called on: a dict with any of the keys
\* a (a dict with any of the keys b and k, a list or a scalar) and c (a
\* list), or a scalar.
KeyA == <<"a">>
KeyB == <<"b">>
KeyC == <<"c">>
KeyK == <<"k">>
KeyX == <<"x">>
Scalars == {JNull, JNum(10), JStr(KeyB)}
Lists == {JList(l) : l \in UNION {[1..m -> {JNum(10), JNum(20)}] : m \in 0..MaxLen}}
InnerDicts ==
    {JDict(d) : d \in {f \in UNION {[K -> Scalars \cup Lists] : K \in SUBSET {KeyB, KeyK}} :
                          KeyK \in DOMAIN f => f[KeyK] = JNum(10)}}
Documents ==
    {JDict(d) : d \in {f \in UNION {[K -> InnerDicts \cup Scalars \cup Lists] :
                                       K \in SUBSET {KeyA, KeyC}} :
                          KeyC \in DOMAIN f => f[KeyC] \in Lists}}
    \cup {JNull, JNum(10)}

\* The paths filter_json is called with: one or two keys, the last of them
\* with or without a bracketed index; alone, or followed by a second path.
NoIndex == 0 - 1
Indices == {NoIndex} \cup (0..MaxLen)
Segment(key, index) ==
    IF index = NoIndex THEN key ELSE key \o <<"[">> \o IndexText(index) \o <<"]">>
Paths ==
    {Segment(key, index) : key \in {KeyA, KeyC, KeyX}, index \in Indices}
    \cup {Join(KeyA, ".", Segment(key, index)) : key \in {KeyB, KeyX}, index \in Indices}
PathSpecs ==
    {NoPath, PathText(<<>>)}
    \cup {PathText(p) : p \in Paths}
    \cup {PathText(Join(p, ",", q)) : p \in Paths, q \in {KeyC, Join(KeyA, ".", KeyB)}}

\* -------------------------------------------------------------- judge model
\* One judge call: it raises, or it returns a completion. The completion is
\* kept by what the parsers read of it: it holds no brace pair, it holds a
\* brace pair around text that is no JSON, or it holds a JSON object.
\* `none` is the value that stands for "no such field" in the parsed object.
JudgeRaises(none) == [call |-> "raises", text |-> None, value |-> none]

JudgeCompletions(values, none) ==
    {[call |-> "returns", text |-> "NoBraces", value |-> none],
     [call |-> "returns", text |-> "BadJson", value |-> none]}
    \cup [call : {"returns"}, text : {"Json"}, value : values \cup {none}]

\* The text of a completion of each kind: prose; braces around text that is
\* no JSON; a JSON object in prose, over two lines.
JsonObject == <<"{", "\"", "s", "\"", ":", " ", "1", "}">>
CompletionText(text) ==
    CASE text = "NoBraces" -> <<"n", "o">>
      [] text = "BadJson" -> <<"{", "x", "}">>
      [] text = "Json" -> <<"a", " ", "{", "\"", "s", "\"", ":", "\n", "1", "}", ".">>

\* The texts ask_llm_against_golden puts in place of a completion when the
\* judge call raised (line 106: {'error': 'exception calling LLM'}) or did
\* not finish normally (line 103: {'error': 'no response from LLM'}), each
\* of its two words cut to one letter.
ExceptionLiteral == <<"{", "'", "e", "'", ":", " ", "'", "x", "'", "}">>
NoResponseLiteral == <<"{", "'", "e", "'", ":", " ", "'", "n", "'", "}">>

\* What cleanup_json returns: None, or a text.
NotFound == [found |-> FALSE, text |-> <<>>]
FoundText(text) == [found |-> TRUE, text |-> text]

\* cleanup_json (docsnsnips.py 20-38).
cleanup_json(x) ==
    LET y == replace(x, <<"'">>, <<>>)
        startBrace == find(y, "{", 0)
        endBrace == rfind(y, "}")
    IN  IF startBrace = 0 - 1 THEN NotFound
        ELSE IF endBrace = 0 - 1 THEN NotFound
        ELSE IF startBrace > endBrace THEN NotFound
        ELSE FoundText(replace(Slice(y, startBrace, endBrace + 1),
                               <<"\n">>, <<" ">>))

\* cleanup_json of each text the judge helpers call it on.
JudgeTexts ==
    {CompletionText(text) : text \in {"NoBraces", "BadJson", "Json"}}
    \cup {ExceptionLiteral, NoResponseLiteral}
Cleaned == [x \in JudgeTexts |-> cleanup_json(x)]

\* json.loads on what cleanup_json returned: TypeError on None, the parsed
\* object on the text of a JSON object, JSONDecodeError on any other text.
json_loads(s) ==
    IF ~s.found THEN "TypeError"
    ELSE IF s.text = JsonObject THEN "parsed"
    ELSE "JSONDecodeError"

\* str(e) of the exceptions the judge helpers let through: the judge call
\* itself raised, json.loads was handed the None of cleanup_json, or
\* strip_references was handed a None.
JudgeCallError == "generate_content raised"
JsonLoadsNoneError == "the JSON object must be str, bytes or bytearray, not NoneType"
StripNoneError == "object of type NoneType has no len()"
\* The error of the mission loop for an action it cannot use (line 222).
InvalidActionError == "Invalid LLM action"

\* ask_llm_for_action: the next-action object, None, or an exception.
\* A JSON object without a request has value NoQuery here.
ActionJudgements(t) ==
    {JudgeRaises(NoQuery)} \cup JudgeCompletions({QueryOfTurn(t)}, NoQuery)

ask_llm_for_action(judge) ==
    IF judge.call = "raises"
    THEN [raised |-> TRUE, error |-> JudgeCallError, request |-> NoQuery,
          valid |-> FALSE]
    ELSE IF json_loads(Cleaned[CompletionText(judge.text)]) = "TypeError"
    THEN [raised |-> TRUE, error |-> JsonLoadsNoneError, request |-> NoQuery,
          valid |-> FALSE]
    ELSE IF json_loads(Cleaned[CompletionText(judge.text)]) = "JSONDecodeError"
    THEN [raised |-> FALSE, error |-> None, request |-> NoQuery,
          valid |-> FALSE]
    ELSE [raised |-> FALSE, error |-> None, request |-> judge.value,
          valid |-> judge.value # NoQuery]

\* is_mission_done: the judge call raises, or its completion is a text (the
\* sequence of its characters).
Yes == <<"y", "e", "s">>
AnswerTexts ==
    {Yes, <<"Y", "e", "s">>, <<"Y", "E", "S">>, <<" ", "y", "e", "s", "\n">>,
     <<"n", "o">>, <<"N", "o">>, <<"y", "e", "s", ".">>,
     <<"y", "e", "s", " ", "n", "o">>, <<"y", " ", "e", "s">>, <<>>}
DoneJudgements ==
    {[call |-> "raises", text |-> <<>>, value |-> None]}
    \cup [call : {"returns"}, text : AnswerTexts, value : {None}]

Whitespace == {" ", "\n"}

RECURSIVE strip(_)
\* text.strip(): text without the whitespace at its start and its end.
strip(text) ==
    IF text = <<>> THEN text
    ELSE IF Head(text) \in Whitespace THEN strip(Tail(text))
    ELSE IF text[Len(text)] \in Whitespace
    THEN strip(SubSeq(text, 1, Len(text) - 1))
    ELSE text

\* text.lower(), for the letters of the answers above.
lower(text) ==
    [p \in 1..Len(text) |->
        CASE text[p] = "Y" -> "y"
          [] text[p] = "E" -> "e"
          [] text[p] = "S" -> "s"
          [] text[p] = "N" -> "n"
          [] text[p] = "O" -> "o"
          [] OTHER -> text[p]]

\* Mutant: an answer that starts with yes counts as yes.
StartsWithYes(llm_output) ==
    Len(llm_output) >= Len(Yes) /\ SubSeq(llm_output, 1, Len(Yes)) = Yes

\* Line 203: llm_output == "yes".
IsYes(llm_output) == llm_output = Yes

is_mission_done(judge) ==
    IF judge.call = "raises"
    THEN [raised |-> TRUE, done |-> FALSE]
    ELSE [raised |-> FALSE, done |-> IsYes(lower(strip(judge.text)))]

\* evaluate_mission: the assessment object, or an exception. A parsed object
\* without overall_success has value None; the error object of line 278 is
\* "ParseError".
OverallSuccess == {"Successful", "Partially Successful", "Failed"}
AssessJudgements ==
    {JudgeRaises(None)} \cup JudgeCompletions(OverallSuccess, None)

evaluate_mission(golden_response, judge) ==
    IF golden_response = None
    THEN [raised |-> TRUE, error |-> StripNoneError, overall_success |-> None]
    ELSE IF judge.call = "raises"
    THEN [raised |-> TRUE, error |-> JudgeCallError, overall_success |-> None]
    ELSE IF json_loads(Cleaned[CompletionText(judge.text)]) = "TypeError"
    THEN [raised |-> TRUE, error |-> JsonLoadsNoneError,
          overall_success |-> None]
    ELSE IF json_loads(Cleaned[CompletionText(judge.text)]) = "JSONDecodeError"
    THEN [raised |-> FALSE, error |-> None, overall_success |-> "ParseError"]
    ELSE [raised |-> FALSE, error |-> None, overall_success |-> judge.value]

\* ask_llm_against_golden: similarity in hundredths, or the error object
\* (similarity NoSimilarity). It raises only while building the prompt from
\* a statement that is None. The judge call raises, returns a completion
\* that did not finish normally (finish_reason is not 1), or returns a
\* completion.
SimilarityThreshold == 50
NoSimilarity == 0 - 1
Similarities == {30, 50, 95}
JudgeUnfinished(none) == [call |-> "unfinished", text |-> None, value |-> none]
GoldenJudgements ==
    {JudgeRaises(NoSimilarity), JudgeUnfinished(NoSimilarity)}
    \cup JudgeCompletions(Similarities, NoSimilarity)

\* Lines 93-106: the text that is parsed.
ResultText(judge) ==
    IF judge.call = "raises" THEN ExceptionLiteral
    ELSE IF judge.call = "unfinished" THEN NoResponseLiteral
    ELSE CompletionText(judge.text)

\* Mutant: the handler of line 113 is the one of ask_llm_for_action.
CaughtOnlyDecodeError(outcome) == outcome = "JSONDecodeError"

\* Line 113: the bare except catches whatever json.loads raises.
Caught(outcome) == outcome \in {"JSONDecodeError", "TypeError"}

ParsingFailedError == "llm response parsing failed"

ask_llm_against_golden(statement, judge) ==
    LET comparison == json_loads(Cleaned[ResultText(judge)])
    IN  IF statement = None
        THEN [raised |-> TRUE, error |-> StripNoneError,
              similarity |-> NoSimilarity]
        ELSE IF comparison = "parsed"
        THEN [raised |-> FALSE, error |-> None, similarity |-> judge.value]
        ELSE IF Caught(comparison)
        THEN [raised |-> FALSE, error |-> ParsingFailedError,
              similarity |-> NoSimilarity]
        ELSE [raised |-> TRUE, error |-> JsonLoadsNoneError,
              similarity |-> NoSimilarity]

\* ------------------------------------------------------- judge text helpers
\* Largest length of a text cleanup_json or strip_references is called on.
MaxText == 5

\* The texts of up to n characters over an alphabet.
Texts(alphabet, n) == UNION {[1..m -> alphabet] : m \in 0..n}

\* The characters cleanup_json tells apart, and a letter for all others.
JsonChars == {"{", "}", "'", "\n", "a"}

\* The characters strip_references tells apart, and two letters for all
\* others.
ReferenceChars == {"[", "]", "a", "b"}

RECURSIVE StripLoop(_, _, _)
\* Lines 52-63: the loop of strip_references, from position p on and with
\* the text gathered in out.
StripLoop(statement, p, out) ==
    IF p = Len(statement) THEN out
    ELSE LET q == find(statement, "[", p)
             gathered == out \o Slice(statement, p, q)
             v == find(statement, "]", q + 1)
         IN  IF q < 0 THEN gathered
             ELSE IF v < 0 THEN gathered
             ELSE StripLoop(statement, v + 1, gathered)

\* strip_references (docsnsnips.py 41-64).
strip_references(statement) == StripLoop(statement, 0, <<>>)

\* ------------------------------------------------------------------- state
VARIABLES
    run_doc,        \* the persisted run record (test_runs/<run_id>)
    case_docs,      \* the persisted test-case records, by ordinal k of test_case_<k>
    run_id,         \* the RUN_ID the worker was started with
    template_id,    \* the TEMPLATE_ID the worker was started with
    pc,             \* where execute_tests_and_store_results stands
    run_data,       \* the run record as loaded at line 437
    test_cases,     \* the ordinals of the records stream() returned, in its order
    num_tests,
    num_completed,
    i,              \* enumerate() index of the current test case, from 0
    tracing_id,
    test_case,      \* the current record as the runners read it
    test_result,    \* the orchestrator's test_result
    turn,           \* execute_test_mission: the loop variable
    conversation_history,
    request_response_history,
    mission_result, \* execute_test_mission's own test_result
    llm_action,
    calls,          \* history: judge and HTTP calls of the current case
    writes,         \* history: the writes to the store, in order
    runner_raised,  \* history: the documents of the cases whose runner raised
    raised_at,      \* history: where an exception left the orchestrator
    invocation,     \* one call of a function on its own: arguments and outcome
    workers         \* the jobs started for one run, when several are: their positions

vars ==
    <<run_doc, case_docs, run_id, template_id, pc, run_data, test_cases,
      num_tests, num_completed, i, tracing_id, test_case, test_result, turn,
      conversation_history, request_response_history, mission_result,
      llm_action, calls, writes, runner_raised, raised_at, invocation,
      workers>>

environment == <<run_id, template_id>>
orchestrator_locals == <<run_data, test_cases, num_tests>>
history == <<writes, runner_raised, raised_at>>
mission_locals ==
    <<turn, conversation_history, request_response_history, mission_result,
      llm_action>>

\* A result object; a field the object does not have is None (NoStatusCode,
\* NoSimilarity for the numbers). turns_x2 is twice the "turns" of a mission
\* result, which the code computes as len(conversation_history) / 2.
EmptyResult ==
    [status |-> None, error |-> None, note |-> None, expected |-> None,
     response |-> None, similarity |-> NoSimilarity,
     status_code |-> NoStatusCode, turns_x2 |-> 0, conversation |-> <<>>,
     payloads |-> <<>>, loop_status |-> None, loop_error |-> None,
     assessment |-> None, of |-> 0]

\* How often the current case called the judge and the target; how the turn
\* loop of its mission ended (loop_exit), in which turn (exit_turn, from 0)
\* and with which conversation history (exit_history); the history
\* evaluate_mission was called with (evaluated_on); and the tracing
\* identifiers of the descriptors execute_request was called with.
NoCalls ==
    [ask |-> 0, request |-> 0, done |-> 0, evaluate |-> 0, pre |-> 0,
     post |-> 0, loop_exit |-> None, exit_turn |-> 0, exit_history |-> <<>>,
     evaluated_on |-> <<>>, tracing_ids |-> {}]

\* The fields of a stored result the model keeps in a test-case record: its
\* status and the test case it was computed from.
StoredResult(result) == [status |-> result.status, of |-> result.of]

\* Mutant: the progress is formatted before the case is counted.
ProgressBeforeCount(completed, total) ==
    [completed |-> completed - 1, total |-> total]

\* Mutant: the two numbers of the progress string are swapped.
ProgressSwapped(completed, total) ==
    [completed |-> total, total |-> completed]

\* The progress string f"{completed}/{total}", kept as its two numbers.
Progress(completed, total) == [completed |-> completed, total |-> total]

\* submit_run stores status "Not Started" and progress 0/N; invoke_run resets
\* the progress of a run to 0/0 before it starts the worker again.
InitialProgress(n) ==
    {[completed |-> 0, total |-> n], [completed |-> 0, total |-> 0]}

\* The number of test cases stored for the run.
NumStored == Cardinality(DOMAIN case_docs)
NoStoredCases == NumStored = 0

\* No function is being called on its own.
NoInvocation == [fn |-> None]

\* run_data before line 437 ran, and the dictionary of a run that is missing.
NotLoaded ==
    [exists |-> FALSE, status |-> None,
     progress |-> [completed |-> 0, total |-> 0],
     end_time |-> FALSE, template_type |-> None,
     mission_duration |-> NoDuration]

MissionDurations == (0..MaxDuration) \cup {NoDuration}

\* The placeholder of a request template, and json.dumps of the request of a
\* test case: text with the placeholder in it. (The tracing_id that line 228
\* adds to the request is kept in tracing_id, not in this text.)
Placeholder == <<"{", "q", "u", "e", "r", "y", "}">>
RequestTemplate == <<"q", ":">> \o Placeholder

NoTestCase ==
    [ordinal |-> 0, pre_request |-> FALSE, post_request |-> FALSE,
     golden_response |-> None, request |-> <<>>]

\* The records of a run as the runners read them.
TestCaseRecords(k) ==
    [ordinal : {k}, pre_request : BOOLEAN, post_request : BOOLEAN,
     golden_response : {None, "golden"}, request : {RequestTemplate}]

\* The state before the worker starts, for a run that was submitted with one
\* of the given numbers of test cases (or was not: the record is missing).
InitOf(sizes) ==
    /\ \E exists \in BOOLEAN, n \in sizes, tt \in TemplateTypes,
          d \in MissionDurations :
        /\ \E p \in InitialProgress(n) :
            run_doc = [exists |-> exists, status |-> "Not Started",
                       progress |-> p, end_time |-> FALSE,
                       template_type |-> tt,
                       mission_duration |->
                           IF tt = "Test Mission" THEN d ELSE NoDuration]
        /\ case_docs =
            [k \in 1..n |->
                [result |-> StoredResult(EmptyResult), tracing_id |-> 0,
                 result_writes |-> 0]]
    /\ run_id \in {None, "run"}
    /\ template_id \in {None, "template"}
    /\ pc = "main"
    /\ run_data = NotLoaded
    /\ test_cases = <<>>
    /\ num_tests = 0
    /\ num_completed = 0
    /\ i = 0
    /\ tracing_id = 0
    /\ test_case = NoTestCase
    /\ test_result = EmptyResult
    /\ turn = 0
    /\ conversation_history = <<>>
    /\ request_response_history = <<>>
    /\ mission_result = EmptyResult
    /\ llm_action = NoQuery
    /\ calls = NoCalls
    /\ writes = <<>>
    /\ runner_raised = {}
    /\ raised_at = None
    /\ invocation = NoInvocation

\* One job is started for the run, the one the variables above describe.
Init ==
    /\ InitOf(0..MaxCases)
    /\ workers = <<>>

\* ------------------------------------------------------- single-shot runner
\* What actual_filtered_response.get(output_field) yields for a response the
\* filter resolved something in: the text under the output field, or None
\* (the filter kept several paths, or no output field is configured).
Statements == {"answer", None}

\* Mutant: a similarity equal to the threshold passes.
PassesAtThreshold(similarity) == similarity >= SimilarityThreshold

\* Line 369: llm_assessment.get("similarity") > 0.5.
Passes(similarity) == similarity > SimilarityThreshold

\* Mutant: the handler of line 393 records the case as Failed.
AssessmentRaisedAsFailed(base, actual_response) ==
    [base EXCEPT !.status = "Failed", !.response = actual_response,
                 !.error = "Error during LLM assessment"]

\* Lines 393-404: the result for a comparison that raised.
AssessmentRaised(base, actual_response) ==
    [base EXCEPT !.status = "Error", !.response = actual_response,
                 !.error = "Error during LLM assessment"]

\* Mutant: without a golden response the case is left without a verdict.
NoGoldenAsError(base, actual_response) ==
    [base EXCEPT !.status = "Error", !.response = actual_response,
                 !.note = "No golden response available"]

\* Lines 405-412: the result when there is no golden response.
NoGolden(base, actual_response) ==
    [base EXCEPT !.status = "Passed", !.response = actual_response,
                 !.note = "No golden response available"]

\* execute_test_run on one test case, given what execute_request and the
\* judge do: the result it returns, or that it raises, and whether it called
\* ask_llm_against_golden (compared).
execute_test_run(tc, r, statement, judge) ==
    LET base == [EmptyResult EXCEPT !.status_code = r.status_code,
                                    !.of = tc.ordinal]
        assessed == ask_llm_against_golden(statement, judge)
    IN  IF r.raised
        THEN \* line 422 reads status_code, which was never bound
             [raised |-> TRUE, compared |-> FALSE, result |-> EmptyResult]
        ELSE IF ReportsFailure(r.result)
        THEN [raised |-> FALSE, compared |-> FALSE,
              result |-> [base EXCEPT !.status = "Failed",
                                      !.error = "API request failed"]]
        ELSE IF tc.golden_response # None /\ FilterResolves(r.result)
        THEN IF assessed.raised
             THEN [raised |-> FALSE, compared |-> TRUE,
                   result |-> AssessmentRaised(base, r.result)]
             ELSE IF assessed.similarity # NoSimilarity
             THEN IF Passes(assessed.similarity)
                  THEN [raised |-> FALSE, compared |-> TRUE,
                        result |-> [base EXCEPT !.status = "Passed",
                                                !.response = r.result,
                                                !.similarity = assessed.similarity]]
                  ELSE [raised |-> FALSE, compared |-> TRUE,
                        result |-> [base EXCEPT !.status = "Failed",
                                                !.expected = tc.golden_response,
                                                !.response = r.result,
                                                !.similarity = assessed.similarity]]
             ELSE [raised |-> FALSE, compared |-> TRUE,
                   result |-> [base EXCEPT !.status = "Error",
                                           !.response = r.result,
                                           !.error = "LLM assessment returned an invalid response"]]
        ELSE IF FilterResolves(r.result)
        THEN [raised |-> FALSE, compared |-> FALSE,
              result |-> NoGolden(base, r.result)]
        ELSE [raised |-> FALSE, compared |-> FALSE,
              result |-> [base EXCEPT !.status = "Failed",
                                      !.response = r.result,
                                      !.note = "No response available"]]

\* ------------------------------------------------------------ orchestrator
\* Mutant: the handler of line 483 records the case as Error.
CaughtResultAsError(tc, e) ==
    [EmptyResult EXCEPT !.status = "Error", !.error = e, !.of = tc.ordinal]

\* The result the orchestrator stores for a case whose processing raised
\* (line 488).
CaughtResult(tc, e) ==
    [EmptyResult EXCEPT !.status = "Failed", !.error = e, !.of = tc.ordinal]

\* Mutant: every result goes to the first document.
DocIdFirst(idx) == 1

\* The document the result of the case at enumerate() index idx is written to:
\* test_case_<idx+1>.
DocId(idx) == idx + 1

\* str(uuid4()) of the case at index idx: an identifier no other case got.
uuid4(idx) == idx + 1

\* One write to the store: a status of the run, the result or the tracing_id
\* of document doc, or a progress with its completed count.
WriteEvent(kind, doc, status, completed) ==
    [kind |-> kind, doc |-> doc, status |-> status, completed |-> completed]

\* The positions in the history of the writes of one kind.
WritesOf(kind) == {w \in 1..Len(writes) : writes[w].kind = kind}

\* Lines 594-600: the worker needs RUN_ID and TEMPLATE_ID, else it ends with
\* a ValueError before it calls execute_tests_and_store_results.
Main ==
    /\ pc = "main"
    /\ pc' = IF run_id = None \/ template_id = None
             THEN "not_started" ELSE "load"
    /\ UNCHANGED <<invocation, workers, run_doc, case_docs, environment, orchestrator_locals,
                   num_completed, i, tracing_id, test_case, test_result,
                   mission_locals, calls, history>>

\* Mutant: the return of line 441 is missing.
LoadWithoutReturn ==
    /\ pc = "load"
    /\ run_data' = IF run_doc.exists THEN run_doc ELSE NotLoaded
    /\ pc' = "set_running"
    /\ test_cases' = StreamOrder(Cardinality(DOMAIN case_docs))
    /\ UNCHANGED <<invocation, workers, run_doc, case_docs, environment, num_tests, num_completed,
                   i, tracing_id, test_case, test_result, mission_locals,
                   calls, history>>

\* Lines 435-449: load the run and its test cases, or return early.
Load ==
    /\ pc = "load"
    /\ run_data' = IF run_doc.exists THEN run_doc ELSE NotLoaded
    /\ IF ~run_doc.exists \/ template_id = None
       THEN /\ pc' = "returned"
            /\ test_cases' = test_cases
       ELSE /\ pc' = "set_running"
            /\ test_cases' = StreamOrder(Cardinality(DOMAIN case_docs))
    /\ UNCHANGED <<invocation, workers, run_doc, case_docs, environment, num_tests, num_completed,
                   i, tracing_id, test_case, test_result, mission_locals,
                   calls, history>>

\* Lines 451-455: status Running.
SetRunning ==
    /\ pc = "set_running"
    /\ run_doc.exists
    /\ run_doc' = [run_doc EXCEPT !.status = "Running"]
    /\ writes' = Append(writes, WriteEvent("status", 0, "Running", 0))
    /\ num_tests' = Len(test_cases)
    /\ num_completed' = 0
    /\ i' = 0
    /\ pc' = "for"
    /\ UNCHANGED <<invocation, workers, case_docs, environment, run_data, test_cases, tracing_id,
                   test_case, test_result, mission_locals, calls,
                   runner_raised, raised_at>>

\* Lines 458-459: the next test case of the list, and its tracing id.
NextTestCase ==
    /\ pc = "for"
    /\ i < Len(test_cases)
    /\ test_case' \in TestCaseRecords(test_cases[i + 1])
    /\ tracing_id' = uuid4(i)
    /\ calls' = NoCalls
    \* test_result of the case before is assigned anew before it is read
    /\ test_result' = EmptyResult
    /\ pc' = "pre_request"
    /\ UNCHANGED <<invocation, workers, run_doc, case_docs, environment, orchestrator_locals,
                   num_completed, i, mission_locals, history>>

\* Lines 502-506: the list is used up; status Completed and the end time.
SetCompleted ==
    /\ pc = "for"
    /\ i >= Len(test_cases)
    /\ run_doc.exists
    /\ run_doc' = [run_doc EXCEPT !.status = "Completed", !.end_time = TRUE]
    /\ writes' = Append(writes, WriteEvent("status", 0, "Completed", 0))
    /\ pc' = "returned"
    /\ UNCHANGED <<invocation, workers, case_docs, environment, orchestrator_locals, num_completed,
                   i, tracing_id, test_case, test_result, mission_locals,
                   calls, runner_raised, raised_at>>

\* Lines 461-465: the pre-request hook. An exception of execute_request is
\* caught at line 483 and ends the case.
PreRequest ==
    /\ pc = "pre_request"
    /\ IF test_case.pre_request
       THEN \E r \in RequestOutcomes(tracing_id) :
            /\ calls' = [calls EXCEPT !.pre = @ + 1,
                                      !.tracing_ids = @ \cup TracingIds(tracing_id)]
            /\ IF r.raised
               THEN /\ test_result' = CaughtResult(test_case, "pre_request raised")
                    /\ pc' = "store_result"
               ELSE /\ test_result' = test_result
                    /\ pc' = "dispatch"
       ELSE /\ calls' = calls
            /\ test_result' = test_result
            /\ pc' = "dispatch"
    /\ UNCHANGED <<invocation, workers, run_doc, case_docs, environment, orchestrator_locals,
                   num_completed, i, tracing_id, test_case, mission_locals,
                   history>>

\* Lines 468, 475-476: a "Test Run" case; execute_test_run from call to return.
ExecuteTestRun ==
    /\ pc = "dispatch"
    /\ run_data.template_type # "Test Mission"
    /\ \E r \in RequestOutcomes(tracing_id), statement \in Statements,
          judge \in GoldenJudgements :
        LET out == execute_test_run(test_case, r, statement, judge)
        IN  /\ calls' = [calls EXCEPT !.request = @ + 1,
                                      !.tracing_ids = @ \cup TracingIds(tracing_id)]
            /\ IF out.raised
               THEN /\ test_result' = CaughtResult(test_case, "execute_test_run raised")
                    /\ runner_raised' = runner_raised \cup {DocId(i)}
                    /\ pc' = "store_result"
               ELSE /\ test_result' = out.result
                    /\ runner_raised' = runner_raised
                    /\ pc' = "post_request"
    /\ UNCHANGED <<invocation, workers, run_doc, case_docs, environment, orchestrator_locals,
                   num_completed, i, tracing_id, test_case, mission_locals,
                   writes, raised_at>>

\* Lines 478-481: the post-request hook. An exception of execute_request is
\* caught at line 483, which replaces the result of the runner.
PostRequest ==
    /\ pc = "post_request"
    /\ IF test_case.post_request
       THEN \E r \in RequestOutcomes(tracing_id) :
            /\ calls' = [calls EXCEPT !.post = @ + 1,
                                      !.tracing_ids = @ \cup TracingIds(tracing_id)]
            /\ test_result' =
                IF r.raised
                THEN CaughtResult(test_case, "post_request raised")
                ELSE test_result
       ELSE /\ calls' = calls
            /\ test_result' = test_result
    /\ pc' = "store_result"
    /\ UNCHANGED <<invocation, workers, run_doc, case_docs, environment, orchestrator_locals,
                   num_completed, i, tracing_id, test_case, mission_locals,
                   history>>

\* Lines 490-494: update({"result": test_result}) on test_case_<i+1>.
\* test_result is not read again before line 469, 476 or 488 assigns it anew,
\* and the calls of the case are over: both are cleared here.
StoreResult ==
    /\ pc = "store_result"
    /\ DocId(i) \in DOMAIN case_docs
    /\ case_docs' = [case_docs EXCEPT ![DocId(i)].result = StoredResult(test_result),
                                      ![DocId(i)].result_writes = @ + 1]
    /\ writes' = Append(writes, WriteEvent("result", DocId(i), None, 0))
    /\ test_result' = EmptyResult
    /\ calls' = NoCalls
    /\ pc' = "store_tracing"
    /\ UNCHANGED <<invocation, workers, run_doc, environment, orchestrator_locals,
                   num_completed, i, tracing_id, test_case, mission_locals,
                   runner_raised, raised_at>>

\* Line 495: update({"tracing_id": tracing_id}) on the same document.
StoreTracingId ==
    /\ pc = "store_tracing"
    /\ DocId(i) \in DOMAIN case_docs
    /\ case_docs' = [case_docs EXCEPT ![DocId(i)].tracing_id = tracing_id]
    /\ writes' = Append(writes, WriteEvent("tracing_id", DocId(i), None, 0))
    /\ pc' = "store_progress"
    /\ UNCHANGED <<invocation, workers, run_doc, environment, orchestrator_locals, num_completed, i,
                   tracing_id, test_case, test_result, mission_locals, calls,
                   runner_raised, raised_at>>

\* Mutant: lines 502-505 are indented into the loop, so that every case
\* sets the status Completed.
StoreProgressAndComplete ==
    /\ pc = "store_progress"
    /\ run_doc.exists
    /\ num_completed' = num_completed + 1
    /\ run_doc' = [run_doc EXCEPT
                      !.progress = [completed |-> num_completed', total |-> num_tests],
                      !.status = "Completed", !.end_time = TRUE]
    /\ writes' = writes \o <<WriteEvent("progress", 0, None, num_completed'),
                             WriteEvent("status", 0, "Completed", 0)>>
    /\ i' = i + 1
    /\ pc' = "for"
    /\ UNCHANGED <<invocation, workers, case_docs, environment, orchestrator_locals, tracing_id,
                   test_case, test_result, mission_locals, calls,
                   runner_raised, raised_at>>

\* Lines 497-500: count the case and persist the progress.
StoreProgress ==
    /\ pc = "store_progress"
    /\ run_doc.exists
    /\ num_completed' = num_completed + 1
    /\ run_doc' = [run_doc EXCEPT !.progress = Progress(num_completed', num_tests)]
    /\ writes' = Append(writes, WriteEvent("progress", 0, None, num_completed'))
    /\ i' = i + 1
    /\ pc' = "for"
    /\ UNCHANGED <<invocation, workers, case_docs, environment, orchestrator_locals, tracing_id,
                   test_case, test_result, mission_locals, calls,
                   runner_raised, raised_at>>

\* The store updates of the orchestrator, none of which is inside a try.
AtStoreUpdate ==
    \/ pc \in {"set_running", "store_result", "store_tracing", "store_progress"}
    \/ pc = "for" /\ i >= Len(test_cases)

\* A store update raises (the service fails, or update() finds no document):
\* the exception leaves execute_tests_and_store_results.
StoreRaises ==
    /\ AtStoreUpdate
    /\ raised_at' = pc
    /\ pc' = "raised"
    /\ UNCHANGED <<invocation, workers, run_doc, case_docs, environment, orchestrator_locals,
                   num_completed, i, tracing_id, test_case, test_result,
                   mission_locals, calls, writes, runner_raised>>

\* ----------------------------------------------------------- mission runner
\* Mutant: the loop runs one turn more.
InRangeInclusive(t, mission_duration) == t <= mission_duration

\* for turn in range(mission_duration): whether the loop runs a turn.
InRange(t, mission_duration) == t < mission_duration

\* Mutant: every entry is appended with the role "user".
TurnAlwaysUser(role, query, answer) ==
    [role |-> "user", query |-> query, answer |-> answer]

\* A conversation entry: the content of a user entry is a query, that of an
\* assistant entry is what the output field filter gave.
Turn(role, query, answer) == [role |-> role, query |-> query, answer |-> answer]

\* The test_result the mission loop leaves behind when it breaks.
LoopResult(status, error) ==
    [EmptyResult EXCEPT !.status = status, !.error = error]

\* History: the loop is left for `reason` with conversation history h.
LeaveLoop(c, reason, t, h) ==
    [c EXCEPT !.loop_exit = reason, !.exit_turn = t, !.exit_history = h]

\* Lines 468-474, 202-208: a "Test Mission" case enters execute_test_mission.
\* range() of a mission_duration that is no integer raises.
StartMission ==
    /\ pc = "dispatch"
    /\ run_data.template_type = "Test Mission"
    /\ turn' = 0
    /\ conversation_history' = <<>>
    /\ request_response_history' = <<>>
    /\ mission_result' = EmptyResult
    /\ llm_action' = NoQuery
    /\ IF run_data.mission_duration = NoDuration
       THEN /\ test_result' = CaughtResult(test_case, "execute_test_mission raised")
            /\ runner_raised' = runner_raised \cup {DocId(i)}
            /\ pc' = "store_result"
       ELSE /\ test_result' = test_result
            /\ runner_raised' = runner_raised
            /\ pc' = "m_loop"
    /\ UNCHANGED <<invocation, workers, run_doc, case_docs, environment, orchestrator_locals,
                   num_completed, i, tracing_id, test_case, calls, writes,
                   raised_at>>

\* Lines 208-225: a turn starts; ask_llm_for_action.
MissionAsk ==
    /\ pc = "m_loop"
    /\ InRange(turn, run_data.mission_duration)
    /\ \E judge \in ActionJudgements(turn) :
        LET action == ask_llm_for_action(judge)
            asked == [calls EXCEPT !.ask = @ + 1]
        IN  IF action.raised
            THEN /\ mission_result' = LoopResult("Failed", action.error)
                 /\ calls' = LeaveLoop(asked, "Exception", turn, conversation_history)
                 /\ llm_action' = llm_action
                 /\ pc' = "m_evaluate"
            ELSE IF ~action.valid
            THEN /\ mission_result' = LoopResult("Error", InvalidActionError)
                 /\ calls' = LeaveLoop(asked, "Error", turn, conversation_history)
                 /\ llm_action' = llm_action
                 /\ pc' = "m_evaluate"
            ELSE /\ mission_result' = mission_result
                 /\ calls' = asked
                 /\ llm_action' = action.request
                 /\ pc' = "m_request"
    /\ UNCHANGED <<invocation, workers, run_doc, case_docs, environment, orchestrator_locals,
                   num_completed, i, tracing_id, test_case, test_result, turn,
                   conversation_history, request_response_history, history>>

\* Mutant: the substitution is made in the request of the test case itself.
TemplateOverwritten(template, request_data) == request_data

\* test_case["request"] after lines 227-231: line 229 copies the request into
\* a text, line 231 binds request_data to a new object made from the text
\* after the substitution; the request of the test case is not assigned.
TemplateAfter(template, request_data) == template

\* Lines 229-231: the request with the proposed query in the place of the
\* placeholder.
Substituted(template, request) ==
    replace(template, Placeholder, IndexText(request))

\* Lines 227-279: the request, the user entry, the call, its record, the
\* assistant entry.
MissionRequest ==
    /\ pc = "m_request"
    /\ test_case' =
        [test_case EXCEPT !.request =
            TemplateAfter(@, Substituted(test_case.request, llm_action))]
    /\ \E r \in RequestOutcomes(tracing_id) :
        LET asked == Append(conversation_history, Turn("user", llm_action, None))
            request_data == Substituted(test_case.request, llm_action)
            answered ==
                Append(asked,
                       Turn("assistant", NoQuery,
                            IF FilterResolves(r.result) THEN "answer" ELSE "filtered"))
            payload == [request |-> request_data, response |-> r.result,
                        status_code |-> r.status_code]
            sent == [calls EXCEPT !.request = @ + 1,
                                  !.tracing_ids = @ \cup TracingIds(tracing_id)]
        IN  IF r.raised
            THEN /\ conversation_history' = asked
                 /\ request_response_history' = request_response_history
                 /\ mission_result' = LoopResult("Failed", "execute_request raised")
                 /\ calls' = LeaveLoop(sent, "Exception", turn, asked)
                 /\ pc' = "m_evaluate"
            ELSE IF ReportsFailure(r.result)
            THEN /\ conversation_history' = asked
                 /\ request_response_history' =
                        Append(request_response_history, payload)
                 /\ mission_result' = LoopResult("Failed", "API request failed")
                 /\ calls' = LeaveLoop(sent, "Failed", turn, asked)
                 /\ pc' = "m_evaluate"
            ELSE /\ conversation_history' = answered
                 /\ request_response_history' =
                        Append(request_response_history, payload)
                 /\ mission_result' = mission_result
                 /\ calls' = sent
                 /\ pc' = "m_done"
    /\ UNCHANGED <<invocation, workers, run_doc, case_docs, environment, orchestrator_locals,
                   num_completed, i, tracing_id, test_result, turn,
                   llm_action, history>>

\* Lines 281-298: is_mission_done, and the end of the turn.
MissionDone ==
    /\ pc = "m_done"
    /\ \E judge \in DoneJudgements :
        LET answer == is_mission_done(judge)
            checked == [calls EXCEPT !.done = @ + 1]
        IN  IF answer.raised
            THEN /\ mission_result' = LoopResult("Failed", "is_mission_done raised")
                 /\ calls' = LeaveLoop(checked, "Exception", turn, conversation_history)
                 /\ turn' = turn
                 /\ pc' = "m_evaluate"
            ELSE IF answer.done
            THEN /\ mission_result' = LoopResult("Passed", None)
                 /\ calls' = LeaveLoop(checked, "Completed", turn, conversation_history)
                 /\ turn' = turn
                 /\ pc' = "m_evaluate"
            ELSE /\ mission_result' = mission_result
                 /\ calls' = checked
                 /\ turn' = turn + 1
                 /\ pc' = "m_loop"
    /\ UNCHANGED <<invocation, workers, run_doc, case_docs, environment, orchestrator_locals,
                   num_completed, i, tracing_id, test_case, test_result,
                   conversation_history, request_response_history, llm_action,
                   history>>

\* Mutant: a mission that uses up its turns returns without the assessment.
MissionExhaustedSkipsEvaluation ==
    /\ pc = "m_loop"
    /\ ~InRange(turn, run_data.mission_duration)
    /\ calls' = LeaveLoop(calls, "Exhausted", turn, conversation_history)
    /\ test_result' =
        [EmptyResult EXCEPT !.turns_x2 = Len(conversation_history),
                            !.conversation = conversation_history,
                            !.payloads = request_response_history,
                            !.status = "Failed", !.of = test_case.ordinal]
    /\ pc' = "post_request"
    /\ turn' = 0
    /\ conversation_history' = <<>>
    /\ request_response_history' = <<>>
    /\ mission_result' = EmptyResult
    /\ llm_action' = NoQuery
    /\ UNCHANGED <<invocation, workers, run_doc, case_docs, environment, orchestrator_locals,
                   num_completed, i, tracing_id, test_case, history>>

\* Mutant: a mission that uses up its turns is recorded as an error of the
\* loop.
MissionExhaustedAsError ==
    /\ pc = "m_loop"
    /\ ~InRange(turn, run_data.mission_duration)
    /\ calls' = LeaveLoop(calls, "Exhausted", turn, conversation_history)
    /\ mission_result' = LoopResult("Error", "Mission duration exceeded")
    /\ pc' = "m_evaluate"
    /\ UNCHANGED <<invocation, workers, run_doc, case_docs, environment,
                   orchestrator_locals, num_completed, i, tracing_id,
                   test_case, test_result, turn, conversation_history,
                   request_response_history, llm_action, history>>

\* Line 208: range(mission_duration) is used up.
MissionExhausted ==
    /\ pc = "m_loop"
    /\ ~InRange(turn, run_data.mission_duration)
    /\ calls' = LeaveLoop(calls, "Exhausted", turn, conversation_history)
    /\ pc' = "m_evaluate"
    /\ UNCHANGED <<invocation, workers, run_doc, case_docs, environment, orchestrator_locals,
                   num_completed, i, tracing_id, test_case, test_result,
                   mission_locals, history>>

\* Mutant: the status is read without the fallback of lines 317-318.
MissionStatusWithoutFallback(overall_success) == overall_success

\* Lines 315-318: the status of a mission result.
MissionStatus(overall_success) ==
    IF overall_success \in OverallSuccess THEN overall_success ELSE "Failed"

\* Lines 300-320: evaluate_mission and the result execute_test_mission
\* returns; an exception of evaluate_mission is caught at line 483.
MissionEvaluate ==
    /\ pc = "m_evaluate"
    /\ \E judge \in AssessJudgements :
        LET final_assessment == evaluate_mission(test_case.golden_response, judge)
        IN  /\ calls' = [calls EXCEPT !.evaluate = @ + 1,
                                      !.evaluated_on = conversation_history]
            /\ IF final_assessment.raised
               THEN /\ test_result' = CaughtResult(test_case, final_assessment.error)
                    /\ runner_raised' = runner_raised \cup {DocId(i)}
                    /\ pc' = "store_result"
               ELSE /\ test_result' =
                        [EmptyResult EXCEPT
                            !.turns_x2 = Len(conversation_history),
                            !.conversation = conversation_history,
                            !.assessment = final_assessment.overall_success,
                            !.payloads = request_response_history,
                            !.loop_status = mission_result.status,
                            !.loop_error = mission_result.error,
                            !.status = MissionStatus(final_assessment.overall_success),
                            !.of = test_case.ordinal]
                    /\ runner_raised' = runner_raised
                    /\ pc' = "post_request"
    /\ turn' = 0
    /\ conversation_history' = <<>>
    /\ request_response_history' = <<>>
    /\ mission_result' = EmptyResult
    /\ llm_action' = NoQuery
    /\ UNCHANGED <<invocation, workers, run_doc, case_docs, environment, orchestrator_locals,
                   num_completed, i, tracing_id, test_case, writes, raised_at>>

\* ------------------------------------------------------------ specification
Next ==
    \/ Main
    \/ Load
    \/ SetRunning
    \/ NextTestCase
    \/ PreRequest
    \/ ExecuteTestRun
    \/ StartMission
    \/ MissionAsk
    \/ MissionRequest
    \/ MissionDone
    \/ MissionExhausted
    \/ MissionEvaluate
    \/ PostRequest
    \/ StoreResult
    \/ StoreTracingId
    \/ StoreProgress
    \/ SetCompleted
    \/ StoreRaises

Spec == Init /\ [][Next]_vars

\* ---------------------------------------------------------------- large run
\* A "Test Run" of LargeRun test cases, as submit_run stored it, in an
\* environment in which nothing fails: the target answers every request with
\* the output field, the judge finds every answer similar to the golden
\* response, and the store takes every update.
LargeRunInit ==
    /\ InitOf({LargeRun})
    /\ run_doc.exists
    /\ run_doc.template_type = "Test Run"
    /\ run_doc.progress = [completed |-> 0, total |-> LargeRun]
    /\ run_id # None
    /\ template_id # None
    /\ workers = <<>>

\* No request and no comparison of the current case has failed.
NothingFailed == test_result.status \in {None, "Passed"}

LargeRunNext ==
    \/ Main
    \/ Load
    \/ SetRunning
    \/ NextTestCase
    \/ PreRequest /\ NothingFailed'
    \/ ExecuteTestRun /\ NothingFailed'
    \/ PostRequest /\ NothingFailed'
    \/ StoreResult
    \/ StoreTracingId
    \/ StoreProgress
    \/ SetCompleted

LargeRunSpec == LargeRunInit /\ [][LargeRunNext]_vars

\* ------------------------------------------------------- concurrent workers
\* Largest number of invoke_run calls for one run.
MaxInvocations == 1

\* The variables of the worker run above; the jobs below keep their own
\* positions in `workers` and leave these alone.
one_worker_vars ==
    <<environment, pc, orchestrator_locals, num_completed, i, tracing_id,
      test_case, test_result, mission_locals, calls, history, invocation>>

\* A job as invoke_job starts it: execute_tests_and_store_results has not
\* read the run yet.
StartedJob == [pc |-> "load", num_tests |-> 0, num_completed |-> 0, i |-> 0]

\* str(uuid4()) of the case at index idx in job w.
JobUuid(w, idx) == (w - 1) * MaxCases + idx + 1

\* submit_run stored a run of 1..MaxCases test cases (status "Not Started",
\* progress 0/N) and started its job.
ConcurrentInit ==
    /\ InitOf(1..MaxCases)
    /\ run_doc.exists
    /\ run_doc.template_type = "Test Run"
    /\ run_doc.progress = [completed |-> 0, total |-> NumStored]
    /\ run_id # None
    /\ template_id # None
    /\ workers = <<StartedJob>>

\* runs.py 242-293: invoke_run for the run, whatever its jobs are doing. The
\* run is found; one update resets status and progress; invoke_job starts
\* another job.
invoke_run ==
    /\ Len(workers) >= 1
    /\ Len(workers) <= MaxInvocations
    /\ run_doc.exists
    /\ run_doc' = [run_doc EXCEPT !.status = "Not Started",
                                  !.progress = [completed |-> 0, total |-> 0]]
    /\ workers' = Append(workers, StartedJob)
    /\ UNCHANGED <<case_docs, one_worker_vars>>

\* Lines 435-449 in job w: the run and its test cases are read.
JobLoad(w) ==
    /\ workers[w].pc = "load"
    /\ workers' = [workers EXCEPT ![w].pc =
                        IF run_doc.exists THEN "set_running" ELSE "returned"]
    /\ UNCHANGED <<run_doc, case_docs, one_worker_vars>>

\* Lines 451-455 in job w.
JobSetRunning(w) ==
    /\ workers[w].pc = "set_running"
    /\ run_doc' = [run_doc EXCEPT !.status = "Running"]
    /\ workers' = [workers EXCEPT ![w].pc = "for", ![w].num_tests = NumStored,
                                  ![w].num_completed = 0, ![w].i = 0]
    /\ UNCHANGED <<case_docs, one_worker_vars>>

\* Lines 458-494 in job w: the next case is executed (the target and the
\* judge do not fail) and its result is written.
JobStoreResult(w) ==
    /\ workers[w].pc = "for"
    /\ workers[w].i < workers[w].num_tests
    /\ LET doc == DocId(workers[w].i)
           of == StreamOrder(workers[w].num_tests)[workers[w].i + 1]
       IN  case_docs' =
               [case_docs EXCEPT ![doc].result = [status |-> "Passed", of |-> of],
                                 ![doc].result_writes = @ + 1]
    /\ workers' = [workers EXCEPT ![w].pc = "store_tracing"]
    /\ UNCHANGED <<run_doc, one_worker_vars>>

\* Line 495 in job w.
JobStoreTracingId(w) ==
    /\ workers[w].pc = "store_tracing"
    /\ case_docs' = [case_docs EXCEPT ![DocId(workers[w].i)].tracing_id =
                                            JobUuid(w, workers[w].i)]
    /\ workers' = [workers EXCEPT ![w].pc = "store_progress"]
    /\ UNCHANGED <<run_doc, one_worker_vars>>

\* Lines 497-500 in job w.
JobStoreProgress(w) ==
    /\ workers[w].pc = "store_progress"
    /\ run_doc' = [run_doc EXCEPT !.progress =
                        Progress(workers[w].num_completed + 1, workers[w].num_tests)]
    /\ workers' = [workers EXCEPT ![w].num_completed = @ + 1, ![w].i = @ + 1,
                                  ![w].pc = "for"]
    /\ UNCHANGED <<case_docs, one_worker_vars>>

\* Lines 502-506 in job w.
JobSetCompleted(w) ==
    /\ workers[w].pc = "for"
    /\ workers[w].i >= workers[w].num_tests
    /\ run_doc' = [run_doc EXCEPT !.status = "Completed", !.end_time = TRUE]
    /\ workers' = [workers EXCEPT ![w].pc = "returned"]
    /\ UNCHANGED <<case_docs, one_worker_vars>>

ConcurrentNext ==
    \/ invoke_run
    \/ \E w \in DOMAIN workers : JobLoad(w)
    \/ \E w \in DOMAIN workers : JobSetRunning(w)
    \/ \E w \in DOMAIN workers : JobStoreResult(w)
    \/ \E w \in DOMAIN workers : JobStoreTracingId(w)
    \/ \E w \in DOMAIN workers : JobStoreProgress(w)
    \/ \E w \in DOMAIN workers : JobSetCompleted(w)

ConcurrentSpec == ConcurrentInit /\ [][ConcurrentNext]_vars

\* ------------------------------------------------- one function on its own
\* What the worker run keeps; a call of a function on its own leaves it alone.
worker_vars ==
    <<run_doc, case_docs, run_id, template_id, pc, run_data, test_cases,
      num_tests, num_completed, i, tracing_id, test_case, test_result, turn,
      conversation_history, request_response_history, mission_result,
      llm_action, calls, writes, runner_raised, raised_at, workers>>

\* No worker is started: there is no RUN_ID and no run.
FunctionInit ==
    /\ Init
    /\ run_id = None
    /\ template_id = None
    /\ ~run_doc.exists
    /\ NoStoredCases
    /\ run_doc.template_type = "Test Run"

\* execute_request is called with any descriptor and the network does with
\* the request whatever it can do.
InvokeExecuteRequest ==
    /\ invocation = NoInvocation
    /\ \E d \in Descriptors, n \in NetOutcomes :
        invocation' = [fn |-> "execute_request", request_data |-> d,
                       net |-> n, out |-> execute_request(d, n)]
    /\ UNCHANGED worker_vars

\* execute_test_run is called with any test case; its request and the judge
\* do whatever they can do.
InvokeExecuteTestRun ==
    /\ invocation = NoInvocation
    /\ \E k \in 1..MaxCases :
        \E tc \in TestCaseRecords(k), r \in RequestOutcomes(uuid4(k - 1)),
           statement \in Statements, judge \in GoldenJudgements :
            invocation' = [fn |-> "execute_test_run", test_case |-> tc,
                           response |-> r, statement |-> statement,
                           judge |-> judge,
                           out |-> execute_test_run(tc, r, statement, judge)]
    /\ UNCHANGED worker_vars

\* The call is over.
InvocationReturns ==
    /\ invocation # NoInvocation
    /\ invocation' = NoInvocation
    /\ UNCHANGED worker_vars

\* filter_json is called with any document and any path specification.
InvokeFilterJson ==
    /\ invocation = NoInvocation
    /\ \E data \in Documents, filter_pathx \in PathSpecs :
        invocation' = [fn |-> "filter_json", source |-> data, data |-> data,
                       filter_pathx |-> filter_pathx, round |-> 1,
                       out |-> filter_json(data, filter_pathx)]
    /\ UNCHANGED worker_vars

\* filter_json is called again, on what it returned and with the same path
\* specification.
FilterJsonAgain ==
    /\ invocation.fn = "filter_json"
    /\ invocation.round = 1
    /\ ~invocation.out.raised
    /\ invocation' =
        [invocation EXCEPT !.data = invocation.out.value, !.round = 2,
                           !.out = filter_json(invocation.out.value,
                                               invocation.filter_pathx)]
    /\ UNCHANGED worker_vars

\* ask_llm_against_golden is called with any statement; the judge does
\* whatever it can do.
InvokeAskLlmAgainstGolden ==
    /\ invocation = NoInvocation
    /\ \E statement \in Statements, judge \in GoldenJudgements :
        invocation' = [fn |-> "ask_llm_against_golden",
                       statement |-> statement, judge |-> judge,
                       out |-> ask_llm_against_golden(statement, judge)]
    /\ UNCHANGED worker_vars

\* evaluate_mission is called with or without a golden response; the judge
\* does whatever it can do.
InvokeEvaluateMission ==
    /\ invocation = NoInvocation
    /\ \E golden_response \in {None, "golden"}, judge \in AssessJudgements :
        invocation' = [fn |-> "evaluate_mission",
                       golden_response |-> golden_response, judge |-> judge,
                       out |-> evaluate_mission(golden_response, judge)]
    /\ UNCHANGED worker_vars

\* is_mission_done is called; the judge does whatever it can do.
InvokeIsMissionDone ==
    /\ invocation = NoInvocation
    /\ \E judge \in DoneJudgements :
        invocation' = [fn |-> "is_mission_done", judge |-> judge,
                       out |-> is_mission_done(judge)]
    /\ UNCHANGED worker_vars

\* cleanup_json is called with any text.
InvokeCleanupJson ==
    /\ invocation = NoInvocation
    /\ \E x \in Texts(JsonChars, MaxText) :
        invocation' = [fn |-> "cleanup_json", x |-> x, out |-> cleanup_json(x)]
    /\ UNCHANGED worker_vars

\* strip_references is called with any text.
InvokeStripReferences ==
    /\ invocation = NoInvocation
    /\ \E statement \in Texts(ReferenceChars, MaxText) :
        invocation' = [fn |-> "strip_references", statement |-> statement,
                       out |-> strip_references(statement)]
    /\ UNCHANGED worker_vars

FunctionNext ==
    \/ InvokeExecuteRequest
    \/ InvokeExecuteTestRun
    \/ InvokeFilterJson
    \/ FilterJsonAgain
    \/ InvokeAskLlmAgainstGolden
    \/ InvokeEvaluateMission
    \/ InvokeIsMissionDone
    \/ InvokeCleanupJson
    \/ InvokeStripReferences
    \/ InvocationReturns

FunctionSpec == FunctionInit /\ [][FunctionNext]_vars

\* ------------------------------------------------------------------ claims

\* execute_tests_and_store_results found the run and went on to execute it.
Executing == run_data.exists /\ pc \notin {"main", "not_started", "load"}

\* The orchestrator is inside the loop body of one test case.
InCase ==
    pc \in {"pre_request", "dispatch", "m_loop", "m_request", "m_done",
            "m_evaluate", "post_request", "store_result", "store_tracing",
            "store_progress"}

StatusWrites(status) ==
    {w \in WritesOf("status") : writes[w].status = status}

\* C1: when execute_tests_and_store_results returns for a run with N >= 1
\* stored test cases, whatever the outcomes of the cases were, the persisted
\* status is Completed and the persisted progress is N/N.
C1_ReturnsCompletedWithFullProgress ==
    (pc = "returned" /\ run_doc.exists /\ NumStored >= 1)
        => /\ run_doc.status = "Completed"
           /\ run_doc.progress = [completed |-> NumStored, total |-> NumStored]

\* The function returned for a run of two cases, the first of which raised
\* inside its runner and the second of which ended in Error.
C1_Witness ==
    /\ pc = "returned"
    /\ NumStored = 2
    /\ 1 \in runner_raised
    /\ case_docs[1].result.status = "Failed"
    /\ case_docs[2].result.status = "Error"
    /\ run_doc.progress = [completed |-> 2, total |-> 2]

\* C2: an exception raised inside the dispatched runner of a test case is
\* turned into a result with status Failed for that case and no other (no
\* document is written twice); the exception never leaves the orchestrator
\* (only a failing store update does), and when the function returns every
\* test case, the later ones included, has got its result.
C2_RunnerExceptionIsolated ==
    /\ \A k \in runner_raised :
        /\ k \in DOMAIN case_docs
        /\ (pc = "store_result" /\ k = DocId(i)) => test_result.status = "Failed"
        /\ case_docs[k].result_writes >= 1 => case_docs[k].result.status = "Failed"
    /\ \A k \in DOMAIN case_docs : case_docs[k].result_writes <= 1
    /\ raised_at \in {None, "set_running", "for", "store_result",
                      "store_tracing", "store_progress"}
    /\ (pc = "returned" /\ Executing)
        => \A k \in DOMAIN case_docs : case_docs[k].result_writes = 1

\* The runner of the first of two mission cases raised, and the second case
\* was still assessed as Successful.
C2_Witness ==
    /\ pc = "returned"
    /\ NumStored = 2
    /\ runner_raised = {1}
    /\ case_docs[1].result.status = "Failed"
    /\ case_docs[2].result.status = "Successful"

\* C3 (as claimed): an execution that wrote the status Running ends, however
\* it ends, with the status Completed.
C3_RunningEndsCompleted ==
    (pc \in {"returned", "raised"} /\ StatusWrites("Running") # {})
        => run_doc.status = "Completed"

\* C4 (as claimed): in every state of an execution the persisted progress has
\* completed <= total and total = the number of test cases loaded, and the
\* j-th progress write carries completed = j.
C4_ProgressTotalIsNumCases ==
    (Executing /\ pc # "set_running")
        => /\ run_doc.progress.completed <= run_doc.progress.total
           /\ run_doc.progress.total = Len(test_cases)
           /\ \A w \in WritesOf("progress") :
                writes[w].completed = Cardinality({v \in WritesOf("progress") : v <= w})

\* C4 (amended): completed <= total always; from the first progress write of
\* the execution on, total = the number of test cases loaded and the
\* persisted completed is the number of cases processed; the j-th progress
\* write carries completed = j. Before the first write the record holds what
\* submit_run (0/N) or invoke_run (0/0) left.
C4_ProgressOfExecution ==
    Executing
        => /\ run_doc.progress.completed <= run_doc.progress.total
           /\ IF \E w \in 1..Len(writes) : writes[w].kind = "progress"
              THEN /\ run_doc.progress.total = Len(test_cases)
                   /\ run_doc.progress.completed = (Len(writes) - 1) \div 3
              ELSE run_doc.progress \in InitialProgress(NumStored)
           \* the writes are: Running, then result, tracing_id, progress per case
           /\ \A w \in 1..Len(writes) :
                writes[w].kind = "progress"
                    => /\ w = 3 * writes[w].completed + 1
                       /\ writes[w].completed >= 1
                       /\ writes[w].completed <= Len(test_cases)

\* Both cases of a run of two were counted: the progress went 1/2, 2/2.
C4_Witness ==
    /\ Cardinality(WritesOf("progress")) = 2
    /\ run_doc.progress = [completed |-> 2, total |-> 2]
    /\ NumStored = 2

\* C5: within one execution the result of a test case is never written
\* twice; every case the progress counts has had its result written exactly
\* once, before the progress update that counts it; and when the function
\* returns, the result of every case of the run has been written exactly
\* once, whatever the outcomes were.
C5_ResultWrittenOnce ==
    /\ \A k \in DOMAIN case_docs : case_docs[k].result_writes <= 1
    /\ \A w \in 1..Len(writes) :
        /\ writes[w].kind = "result"
            => /\ case_docs[writes[w].doc].result_writes = 1
               /\ \A v \in 1..(w - 1) :
                    ~(writes[v].kind = "result" /\ writes[v].doc = writes[w].doc)
        /\ writes[w].kind = "progress"
            => /\ w >= 3
               /\ writes[w - 2].kind = "result"
               /\ writes[w - 2].doc = writes[w].completed
    /\ (pc = "returned" /\ Executing)
        => \A k \in DOMAIN case_docs :
            /\ case_docs[k].result_writes = 1
            /\ \E w \in 1..Len(writes) :
                writes[w].kind = "result" /\ writes[w].doc = k

\* A run of two cases returned, one Passed and one Failed, each written once.
C5_Witness ==
    /\ pc = "returned"
    /\ NumStored = 2
    /\ case_docs[1].result_writes = 1 /\ case_docs[1].result.status = "Passed"
    /\ case_docs[2].result_writes = 1 /\ case_docs[2].result.status = "Failed"

\* C6: within one execution the status is written at most once to Running
\* and at most once to Completed, and exactly twice when the function
\* returns; Running is the first write of the execution and precedes the
\* dispatch of any case; Completed is the last write and follows the progress
\* update of the last case directly.
C6_StatusWrittenTwice ==
    /\ writes # <<>> => writes[1].kind = "status"
    /\ InCase => writes # <<>>
    /\ \A w \in 1..Len(writes) :
        writes[w].kind = "status"
            => IF w = 1
               THEN writes[w].status = "Running"
               ELSE /\ writes[w].status = "Completed"
                    /\ w = Len(writes)
                    /\ IF Len(test_cases) >= 1
                       THEN /\ writes[w - 1].kind = "progress"
                            /\ writes[w - 1].completed = Len(test_cases)
                       ELSE w = 2
    /\ (pc = "returned" /\ Executing)
        => /\ Len(writes) >= 2
           /\ writes[Len(writes)].kind = "status"
           /\ run_doc.status = "Completed"

\* A run of two cases returned: Running, three writes per case, Completed.
C6_Witness ==
    /\ pc = "returned"
    /\ NumStored = 2
    /\ Len(writes) = 8
    /\ writes[1].status = "Running"
    /\ writes[8].status = "Completed"

\* C7 (as claimed): if the run record is missing or the run has no test
\* cases, nothing is written, the status is never Running and no exception
\* leaves the function.
C7_MissingRunOrCasesWritesNothing ==
    (~run_doc.exists \/ NumStored = 0)
        => /\ writes = <<>>
           /\ run_doc.status # "Running"
           /\ pc # "raised"

\* C7 (amended): if the run record is missing the function returns without
\* raising and without writing anything, so the status is never Running. A
\* run that exists and has no test cases is executed: its status is written
\* to Running and then to Completed, and nothing else is written.
C7_MissingRunWritesNothing ==
    /\ ~run_doc.exists
        => /\ writes = <<>>
           /\ run_doc.status = "Not Started"
           /\ pc \in {"main", "not_started", "load", "returned"}
    /\ (run_doc.exists /\ NumStored = 0)
        => /\ WritesOf("status") = 1..Len(writes)
           /\ pc = "returned" /\ Executing
                => /\ Len(writes) = 2
                   /\ writes[1].status = "Running"
                   /\ writes[2].status = "Completed"

\* The function returned for a run whose record is missing.
C7_Witness ==
    /\ ~run_doc.exists
    /\ pc = "returned"
    /\ NumStored >= 1

\* C8: a mission with mission_duration = D calls ask_llm_for_action at most D
\* times, executes at most D requests and calls is_mission_done at most D
\* times, whatever the judge and the target answer.
C8_AtMostDTurns ==
    (Executing /\ run_data.template_type = "Test Mission"
               /\ run_data.mission_duration # NoDuration)
        => /\ calls.ask <= run_data.mission_duration
           /\ calls.request <= run_data.mission_duration
           /\ calls.done <= run_data.mission_duration
           /\ turn <= run_data.mission_duration
           /\ Len(conversation_history) <= 2 * run_data.mission_duration

\* A mission of budget 2 used up both turns.
C8_Witness ==
    /\ run_data.template_type = "Test Mission"
    /\ run_data.mission_duration = 2
    /\ calls.ask = 2 /\ calls.request = 2 /\ calls.done = 2
    /\ calls.loop_exit = "Exhausted"

\* C9: evaluate_mission is not called while the turn loop runs; however the
\* loop ends, it is then called exactly once, with the conversation history
\* the loop had accumulated when it ended.
C9_EvaluatedOnceAfterLoop ==
    /\ pc \in {"m_loop", "m_request", "m_done"}
        => calls.loop_exit = None /\ calls.evaluate = 0
    /\ pc = "m_evaluate"
        => /\ calls.loop_exit # None
           /\ calls.evaluate = 0
           /\ calls.exit_history = conversation_history
    /\ (calls.loop_exit # None /\ pc # "m_evaluate")
        => /\ calls.evaluate = 1
           /\ calls.evaluated_on = calls.exit_history

\* The loop ended by an exception of execute_request, after the user entry
\* was appended, and the mission was assessed on that history.
C9_Witness ==
    /\ calls.loop_exit = "Exception"
    /\ calls.request = 1
    /\ Len(calls.exit_history) = 1
    /\ calls.evaluate = 1
    /\ pc = "post_request"

\* C10: if every request succeeds and is_mission_done first returns true on
\* turn k, then k turns were started, k requests were executed, the history
\* has 2k entries, user and assistant in turn, the loop outcome is Passed,
\* and the assessment is called once.
C10_CompletedOnTurnK ==
    calls.loop_exit = "Completed"
        => LET k == calls.exit_turn + 1
           IN  /\ 1 <= k /\ k <= run_data.mission_duration
               /\ calls.ask = k /\ calls.request = k /\ calls.done = k
               /\ Len(calls.exit_history) = 2 * k
               /\ \A j \in 1..(2 * k) :
                    calls.exit_history[j].role =
                        IF j % 2 = 1 THEN "user" ELSE "assistant"
               /\ pc = "m_evaluate"
                    => /\ mission_result.status = "Passed"
                       /\ conversation_history = calls.exit_history
                       /\ calls.evaluate = 0
               /\ pc # "m_evaluate" => calls.evaluate = 1
               /\ pc = "post_request"
                    => /\ test_result.loop_status = "Passed"
                       /\ test_result.turns_x2 = 2 * k
                       /\ test_result.conversation = calls.exit_history

\* A mission of budget 2 was completed on its first turn and assessed.
C10_Witness ==
    /\ calls.loop_exit = "Completed"
    /\ calls.exit_turn = 0
    /\ run_data.mission_duration = 2
    /\ pc = "post_request"
    /\ test_result.turns_x2 = 2

\* C11 (as claimed): when the judge's next-action output is unparseable (no
\* brace pair, or a brace pair around text that is no JSON) or lacks a
\* request, the turn loop ends at once with the status Error, no request is
\* executed in that turn and nothing is appended to the conversation history
\* in that turn.
C11_UnusableActionEndsInError ==
    (pc = "m_evaluate"
        /\ mission_result.error \in {InvalidActionError, JsonLoadsNoneError})
        => /\ mission_result.status = "Error"
           /\ calls.loop_exit \in {"Error", "Exception"}
           /\ calls.ask = calls.exit_turn + 1
           /\ calls.request = calls.exit_turn
           /\ Len(conversation_history) = 2 * calls.exit_turn

\* C12 (as claimed): a turn whose request the executor reports as failed
\* ends the loop as Failed and appends no entry for that turn; so the
\* conversation history the loop ends with is a sequence of user/assistant
\* pairs, and the turns of the mission result are the number of turns whose
\* request succeeded.
C12_FailedRequestAppendsNothing ==
    calls.loop_exit = "Failed"
        => /\ pc = "m_evaluate" => mission_result.status = "Failed"
           /\ Len(calls.exit_history) = 2 * calls.exit_turn
           /\ Len(calls.exit_history) % 2 = 0
           /\ \A j \in 1..Len(calls.exit_history) :
                calls.exit_history[j].role =
                    IF j % 2 = 1 THEN "user" ELSE "assistant"
           /\ (pc = "post_request" /\ calls.evaluate = 1)
                => /\ test_result.turns_x2 % 2 = 0
                   /\ test_result.turns_x2 =
                        2 * Cardinality(
                            {j \in 1..Len(test_result.payloads) :
                                ~ReportsFailure(test_result.payloads[j].response)})

\* The final assessment of the current mission case erred: evaluate_mission
\* raised, or it returned an object without overall_success.
AssessmentErred ==
    /\ calls.evaluate = 1
    /\ pc \in {"post_request", "store_result"}
    /\ \/ test_result.error \in {JudgeCallError, JsonLoadsNoneError, StripNoneError}
       \/ /\ test_result.error = None
          /\ test_result.assessment \in {None, "ParseError"}

\* C13: if the final assessment of a mission errs (the judge call raises, the
\* output holds no JSON object, the JSON is invalid, or the object has no
\* overall_success), the result of the case has the status Failed, the write
\* of line 494 stores it with that status, and no exception has left the
\* orchestrator: it goes on with the progress update and the next case.
C13_AssessmentErrorIsFailed ==
    /\ [](AssessmentErred => test_result.status = "Failed" /\ raised_at = None)
    /\ [][(AssessmentErred /\ pc = "store_result" /\ pc' = "store_tracing")
            => /\ case_docs'[DocId(i)].result.status = "Failed"
               /\ case_docs'[DocId(i)].result_writes = 1]_vars

\* The assessment of the first of two missions held no JSON object; its
\* result, Failed, is about to be stored.
C13_Witness ==
    /\ AssessmentErred
    /\ test_result.error = JsonLoadsNoneError
    /\ test_result.status = "Failed"
    /\ NumStored = 2
    /\ i = 0
    /\ pc = "store_result"

\* execute_test_run was called on its own and its main request returned a
\* response object (execute_request did not raise).
TestRunReturned ==
    /\ invocation.fn = "execute_test_run"
    /\ ~invocation.response.raised

\* The same, and the executor did not report the request as failed.
TestRunRequestSucceeded ==
    /\ TestRunReturned
    /\ invocation.response.result \in {"Answer", "NoField"}

\* C14: in a single-shot case whose main request execute_request reports as
\* Failed, the result has the status Failed and the transport error (and the
\* status code of the request), and ask_llm_against_golden is not called.
C14_FailedRequestSkipsComparison ==
    (TestRunReturned
        /\ invocation.response.result \in {FailedResult, "StatusFailed"})
        => /\ ~invocation.out.raised
           /\ invocation.out.result.status = "Failed"
           /\ invocation.out.result.error = "API request failed"
           /\ invocation.out.result.status_code = invocation.response.status_code
           /\ invocation.out.result.similarity = NoSimilarity
           /\ ~invocation.out.compared

\* A case with a golden response whose request came back with status 500.
C14_Witness ==
    /\ TestRunReturned
    /\ invocation.response.result = FailedResult
    /\ invocation.response.status_code = 500
    /\ invocation.test_case.golden_response = "golden"
    /\ invocation.judge.value = 95
    /\ invocation.out.result.status = "Failed"

\* The judge was asked to compare an extracted answer with the golden
\* response and gave a similarity score.
ScoreGiven ==
    /\ TestRunReturned
    /\ invocation.response.result = "Answer"
    /\ invocation.test_case.golden_response # None
    /\ invocation.statement # None
    /\ invocation.judge.call = "returns"
    /\ invocation.judge.text = "Json"
    /\ invocation.judge.value # NoSimilarity

\* C15: with a golden response, a successful request and a successful field
\* extraction, the status is Passed exactly when the similarity is strictly
\* greater than 0.5; for a similarity of 0.5 or less it is Failed and the
\* result carries the golden response and the actual response.
C15_PassedAboveThreshold ==
    ScoreGiven
        => /\ ~invocation.out.raised
           /\ invocation.out.compared
           /\ invocation.out.result.similarity = invocation.judge.value
           /\ invocation.out.result.response = invocation.response.result
           /\ invocation.out.result.status \in {"Passed", "Failed"}
           /\ invocation.out.result.status = "Passed"
                <=> invocation.judge.value > SimilarityThreshold
           /\ invocation.out.result.status = "Failed"
                => invocation.out.result.expected
                        = invocation.test_case.golden_response

\* The judge gave exactly 0.5: the case is Failed.
C15_Witness ==
    /\ ScoreGiven
    /\ invocation.judge.value = SimilarityThreshold
    /\ invocation.out.result.status = "Failed"
    /\ invocation.out.result.expected = "golden"

\* The comparison with the golden response was due and failed: the judge
\* call raised, its output was no JSON object, the object had no similarity,
\* or the prompt could not be built from the extracted value.
ComparisonFailed ==
    /\ TestRunReturned
    /\ invocation.response.result = "Answer"
    /\ invocation.test_case.golden_response # None
    /\ \/ invocation.statement = None
       \/ invocation.judge.call = "raises"
       \/ invocation.judge.text \in {"NoBraces", "BadJson"}
       \/ invocation.judge.value = NoSimilarity

\* C16: whenever the comparison with the golden response fails, the status
\* of the case is Error, never Passed or Failed, and execute_test_run
\* returns: no exception leaves it.
C16_ComparisonFailureIsError ==
    ComparisonFailed
        => /\ ~invocation.out.raised
           /\ invocation.out.compared
           /\ invocation.out.result.status = "Error"
           /\ invocation.out.result.error # None
           /\ invocation.out.result.response = invocation.response.result

\* The judge call raised.
C16_Witness ==
    /\ ComparisonFailed
    /\ invocation.judge.call = "raises"
    /\ invocation.statement = "answer"
    /\ invocation.out.result.status = "Error"

\* C17 (as claimed): in a single-shot case whose main request succeeded and
\* which has no golden response, the status is Passed with the note that no
\* golden response is available, and ask_llm_against_golden is not called.
C17_NoGoldenIsPassed ==
    (TestRunRequestSucceeded /\ invocation.test_case.golden_response = None)
        => /\ invocation.out.result.status = "Passed"
           /\ invocation.out.result.note = "No golden response available"
           /\ ~invocation.out.compared

\* C17 (amended): the same, for a response in which the output field filter
\* resolved something; ask_llm_against_golden is not called either way.
C17_NoGoldenWithResponseIsPassed ==
    (TestRunRequestSucceeded /\ invocation.test_case.golden_response = None)
        => /\ ~invocation.out.raised
           /\ ~invocation.out.compared
           /\ invocation.out.result.similarity = NoSimilarity
           /\ invocation.response.result = "Answer"
                => /\ invocation.out.result.status = "Passed"
                   /\ invocation.out.result.note = "No golden response available"
                   /\ invocation.out.result.response = "Answer"

\* A case without golden response whose response holds the output field.
C17_Witness ==
    /\ TestRunRequestSucceeded
    /\ invocation.test_case.golden_response = None
    /\ invocation.response.result = "Answer"
    /\ invocation.judge.value = 95
    /\ invocation.out.result.status = "Passed"

\* C18: in a single-shot case whose main request succeeded and in whose
\* response the output field filter resolved nothing, the status is Failed
\* with the note 'No response available' and ask_llm_against_golden is not
\* called, with and without a golden response.
C18_EmptyFilterIsFailed ==
    (TestRunReturned /\ invocation.response.result = "NoField")
        => /\ ~invocation.out.raised
           /\ invocation.out.result.status = "Failed"
           /\ invocation.out.result.note = "No response available"
           /\ invocation.out.result.response = "NoField"
           /\ ~invocation.out.compared

\* A case with a golden response whose response lacks the output field.
C18_Witness ==
    /\ TestRunReturned
    /\ invocation.response.result = "NoField"
    /\ invocation.test_case.golden_response = "golden"
    /\ invocation.out.result.status = "Failed"
    /\ invocation.out.result.note = "No response available"

\* C19 (as claimed): execute_request never raises; on a failure its result
\* is the Failed object, its status code is the one of the response when
\* there was a response, and it is 0 exactly when there was none.
C19_ExecuteRequestNeverRaises ==
    invocation.fn = "execute_request"
        => LET d == invocation.request_data
               n == invocation.net
               sent == d.method \in SupportedMethods
               received == sent /\ n.kind = "Response"
           IN  /\ ~invocation.out.raised
               /\ received => invocation.out.status_code = n.status_code
               /\ invocation.out.status_code = 0 <=> ~received
               /\ (~received \/ n.status_code >= 400)
                    => invocation.out.result = FailedResult

\* C20 (as claimed): every call of execute_request that returns has emitted
\* exactly one execution log entry: on success, on a transport failure, on a
\* status that is no 2xx, on an unsupported method, and on a 2xx response
\* whose body is no JSON.
C20_OneLogEntryPerRequest ==
    (invocation.fn = "execute_request" /\ ~invocation.out.raised)
        => invocation.out.logs = 1

\* C21 (as claimed): when the target answers with a 2xx status and a body
\* that is no valid JSON, execute_request returns the raw text of the body as
\* its result, with the status code of the response, and does not report the
\* request as Failed.
C21_NonJsonBodyIsReturnedAsText ==
    (invocation.fn = "execute_request"
        /\ ~invocation.out.raised
        /\ invocation.request_data.method \in SupportedMethods
        /\ invocation.net.kind = "Response"
        /\ invocation.net.status_code < 400
        /\ invocation.net.body = NotJson)
        => /\ invocation.out.result = invocation.net.body
           /\ ~ReportsFailure(invocation.out.result)
           /\ invocation.out.status_code = invocation.net.status_code

\* filter_json was called on its own with a path specification that is
\* neither None nor empty.
FilterCalledWithPaths ==
    /\ invocation.fn = "filter_json"
    /\ invocation.filter_pathx.given
    /\ invocation.filter_pathx.text # <<>>

\* The comma-separated paths of the call.
PathsOfCall == Split(invocation.filter_pathx.text, ",")

RECURSIVE Lookup(_, _)
\* Direct traversal of data along the keys of a path: whether every key and
\* every bracketed index exists (a key in a dict, an index i with
\* 0 <= i < length of the list under the key), and the value found there.
Lookup(data, keys) ==
    IF keys = <<>> THEN [exists |-> TRUE, value |-> data]
    ELSE LET indexed == Has(Head(keys), "[")
             key == IF indexed THEN SplitOnce(Head(keys), "[")[1] ELSE Head(keys)
             inner == SplitOnce(Head(keys), "[")[2]
             index == IntOf(SubSeq(inner, 1, Len(inner) - 1))
         IN  IF data.t # "dict" \/ key \notin DOMAIN data.d
             THEN [exists |-> FALSE, value |-> JNull]
             ELSE IF ~indexed THEN Lookup(data.d[key], Tail(keys))
             ELSE IF /\ data.d[key].t = "list"
                     /\ 0 <= index
                     /\ index < Len(data.d[key].l)
             THEN Lookup(data.d[key].l[index + 1], Tail(keys))
             ELSE [exists |-> FALSE, value |-> JNull]

\* Path p exists in the data of the call and leads to a value.
Exists(p) ==
    /\ Lookup(invocation.data, Split(p, ".")).exists
    /\ Lookup(invocation.data, Split(p, ".")).value # JNull

\* C22: filter_json(data, pathSpec) returns data itself, unchanged, whenever
\* pathSpec is None or the empty string, for every data (a dict or not).
C22_EmptyPathIsIdentity ==
    (invocation.fn = "filter_json"
        /\ (~invocation.filter_pathx.given \/ invocation.filter_pathx.text = <<>>))
        => /\ ~invocation.out.raised
           /\ invocation.out.value = invocation.data

\* filter_json was called with the empty string on a document with a list.
C22_Witness ==
    /\ invocation.fn = "filter_json"
    /\ invocation.filter_pathx = PathText(<<>>)
    /\ invocation.round = 1
    /\ invocation.data.t = "dict"
    /\ KeyC \in DOMAIN invocation.data.d
    /\ invocation.out.value = invocation.data

\* C23 (as claimed): for every path of the call whose keys and bracketed
\* indices all exist in data (an index i whenever 0 <= i < length of the
\* indexed list), the mapping filter_json returns has the full path text as
\* a key, with the value direct traversal gives.
C23_ExistingPathIsResolved ==
    (FilterCalledWithPaths /\ ~invocation.out.raised)
        => \A j \in 1..Len(PathsOfCall) :
            Exists(PathsOfCall[j])
                => /\ PathsOfCall[j] \in DOMAIN invocation.out.value.d
                   /\ invocation.out.value.d[PathsOfCall[j]]
                        = Lookup(invocation.data, Split(PathsOfCall[j], ".")).value

\* C24 (as claimed): filter_json never raises on a JSON object; a path that
\* hits a missing key, an index outside the list, a None or a value that is
\* no dict is absent from the result, and every other path of the same call
\* is resolved as it is when it is the only path.
C24_FilterNeverRaises ==
    (invocation.fn = "filter_json" /\ invocation.data.t = "dict")
        => /\ ~invocation.out.raised
           /\ FilterCalledWithPaths
                => \A j \in 1..Len(PathsOfCall) :
                    LET p == PathsOfCall[j]
                        alone == filter_json(invocation.data, PathText(p))
                    IN  /\ ~Exists(p) => p \notin DOMAIN invocation.out.value.d
                        /\ (~alone.raised /\ p \in DOMAIN alone.value.d)
                            => /\ p \in DOMAIN invocation.out.value.d
                               /\ invocation.out.value.d[p] = alone.value.d[p]

\* filter_json was called a second time, on the mapping the first call
\* returned for the same path specification.
FilteredAgain ==
    /\ FilterCalledWithPaths
    /\ invocation.round = 2

\* C25 (as claimed): for every path p of the call that resolved in data,
\* filter_json(filter_json(data, p), p) has the same entry p -> value as
\* filter_json(data, p), also when p has several dotted segments or a
\* bracketed index.
C25_FilterIsIdempotent ==
    FilteredAgain
        => \A j \in 1..Len(PathsOfCall) :
            PathsOfCall[j] \in DOMAIN invocation.data.d
                => /\ ~invocation.out.raised
                   /\ PathsOfCall[j] \in DOMAIN invocation.out.value.d
                   /\ invocation.out.value.d[PathsOfCall[j]]
                        = invocation.data.d[PathsOfCall[j]]

\* A path that is one key: no dot and no bracket.
IsSingleKey(p) == ~Has(p, ".") /\ ~Has(p, "[")

\* C25 (amended): filtering the result again with the same specification
\* never raises; a path that is a single key (no dot, no bracket) and
\* resolved in data keeps its entry; a path with a dot or a bracket is looked
\* up key by key in the first result, whose keys are whole path texts, so
\* when it is the only path of the call the second result is empty.
C25_SingleKeyIsIdempotent ==
    FilteredAgain
        => /\ ~invocation.out.raised
           /\ \A j \in 1..Len(PathsOfCall) :
                (IsSingleKey(PathsOfCall[j])
                    /\ PathsOfCall[j] \in DOMAIN invocation.data.d)
                    => /\ PathsOfCall[j] \in DOMAIN invocation.out.value.d
                       /\ invocation.out.value.d[PathsOfCall[j]]
                            = invocation.data.d[PathsOfCall[j]]
           /\ (Len(PathsOfCall) = 1 /\ ~IsSingleKey(PathsOfCall[1]))
                => invocation.out.value = EmptyDict

\* {a: {b: 10}} was filtered with "a.b"; filtering the result {"a.b": 10}
\* with "a.b" again gave the empty mapping.
C25_Witness ==
    /\ FilteredAgain
    /\ invocation.filter_pathx = PathText(Join(KeyA, ".", KeyB))
    /\ invocation.source = JDict([k \in {KeyA} |-> JDict([m \in {KeyB} |-> JNum(10)])])
    /\ invocation.data = JDict([k \in {Join(KeyA, ".", KeyB)} |-> JNum(10)])
    /\ invocation.out.value = EmptyDict

\* ask_llm_against_golden was called on its own and the judge failed: the
\* call raised, the completion did not finish normally, or its text holds no
\* JSON object that can be parsed.
GoldenJudgeFailed ==
    /\ invocation.fn = "ask_llm_against_golden"
    /\ \/ invocation.judge.call \in {"raises", "unfinished"}
       \/ invocation.judge.text \in {"NoBraces", "BadJson"}

\* The returned value is an object with an error field and no similarity.
IsErrorObject(out) ==
    /\ ~out.raised
    /\ out.error # None
    /\ out.similarity = NoSimilarity

\* C26 (as claimed): ask_llm_against_golden never raises to its caller; if
\* the judge call raises, does not finish normally, or its text holds no
\* parseable JSON object, it returns an object with an error field and
\* without a similarity field.
C26_GoldenComparisonNeverRaises ==
    invocation.fn = "ask_llm_against_golden"
        => /\ ~invocation.out.raised
           /\ GoldenJudgeFailed => IsErrorObject(invocation.out)

\* C26 (amended): ask_llm_against_golden raises exactly when the statement
\* it is given is None (strip_references fails while the prompt is built,
\* before the judge is called); for a statement that is a text it never
\* raises, and every failure of the judge gives the error object, without a
\* similarity field.
C26_JudgeFailureIsErrorObject ==
    invocation.fn = "ask_llm_against_golden"
        => /\ invocation.out.raised <=> invocation.statement = None
           /\ (GoldenJudgeFailed /\ invocation.statement # None)
                => IsErrorObject(invocation.out)
           /\ (~GoldenJudgeFailed /\ invocation.statement # None)
                => /\ invocation.out.error = None
                   /\ invocation.out.similarity = invocation.judge.value

\* The judge answered with text that holds no brace pair, and the caller
\* got the error object.
C26_Witness ==
    /\ GoldenJudgeFailed
    /\ invocation.statement = "answer"
    /\ invocation.judge.text = "NoBraces"
    /\ invocation.out.error = ParsingFailedError
    /\ ~invocation.out.raised

\* C27 (as claimed): evaluate_mission returns an object with an error field,
\* and does not raise, whenever the output of the judge cannot be parsed:
\* when it holds no brace pair at all, and when the text between its braces
\* is no valid JSON.
C27_UnparseableAssessmentIsErrorObject ==
    (invocation.fn = "evaluate_mission"
        /\ invocation.golden_response # None
        /\ invocation.judge.call = "returns"
        /\ invocation.judge.text \in {"NoBraces", "BadJson"})
        => /\ ~invocation.out.raised
           /\ invocation.out.overall_success = "ParseError"

\* The answers that are "yes" in some case, alone or between whitespace.
YesAnswers ==
    {Yes, <<"Y", "e", "s">>, <<"Y", "E", "S">>, <<" ", "y", "e", "s", "\n">>}

\* C28: is_mission_done returns true only when the answer of the judge is
\* "yes" in whatever case (whitespace around it is ignored), and false for
\* "no" and for every other output, an answer that goes on after "yes"
\* included.
C28_DoneOnlyOnYes ==
    (invocation.fn = "is_mission_done" /\ invocation.judge.call = "returns")
        => /\ ~invocation.out.raised
           /\ invocation.out.done <=> invocation.judge.text \in YesAnswers

\* The judge answered "yes." and the mission is not done.
C28_Witness ==
    /\ invocation.fn = "is_mission_done"
    /\ invocation.judge.text = <<"y", "e", "s", ".">>
    /\ ~invocation.out.done

\* C29 (as claimed): the result and the tracing_id computed from the test
\* case that was read from record test_case_k are written to record
\* test_case_k, for every k and every number of cases; no result is stored
\* on the record of another case.
C29_ResultStoredOnItsRecord ==
    \A k \in DOMAIN case_docs :
        /\ case_docs[k].result_writes >= 1 => case_docs[k].result.of = k
        /\ case_docs[k].tracing_id # 0
            => \E idx \in 0..(Len(test_cases) - 1) :
                /\ test_cases[idx + 1] = k
                /\ case_docs[k].tracing_id = uuid4(idx)

\* C30 (as claimed): the test cases are processed one at a time and in the
\* order they were submitted in (ordinal 1, 2, ..., N), for every N: the case
\* being processed is the one after those whose result and progress are
\* persisted.
C30_ProcessedInSubmissionOrder ==
    InCase
        => /\ test_case.ordinal = i + 1
           /\ num_completed = i
           /\ run_doc.progress.completed = i \/ i = 0
           /\ \A k \in 1..i : case_docs[k].result_writes = 1
           /\ \A k \in (i + 2)..NumStored : case_docs[k].result_writes = 0

\* C31 (as claimed): whenever the persisted status of a run is Completed, its
\* persisted progress is total/total (as many cases completed as the run
\* has), also when invoke_run is called while a job still executes the run.
C31_CompletedHasFullProgress ==
    run_doc.status = "Completed"
        => /\ run_doc.progress.completed = run_doc.progress.total
           /\ run_doc.progress.total = NumStored

\* C32 (as claimed): a pre-request hook that fails, whichever way (no
\* response, a status that is not 2xx, or an exception while the request is
\* prepared or dispatched), changes nothing for its case: the step that
\* executes the hook leaves the result of the case as it was and goes on to
\* the main request.
C32_FailedPreRequestIsIgnored ==
    [][(pc = "pre_request" /\ test_case.pre_request)
            => (pc' = "dispatch" /\ test_result' = test_result)]_vars

\* The runner of the current case is over: it returned, or it raised.
RunnerFinished ==
    /\ pc \in {"post_request", "store_result"}
    /\ \/ DocId(i) \in runner_raised
       \/ calls.request >= 1
       \/ calls.evaluate >= 1

\* C33 (as claimed): for a test case with a post-request descriptor the
\* post-request is executed exactly once after the main runner finished,
\* whether the runner returned Passed, Failed or Error or raised; and the
\* step that executes the post-request never changes the result of the case.
C33_PostRequestAlwaysExecuted ==
    /\ [](RunnerFinished /\ test_case.post_request
            => calls.post = (IF pc = "store_result" THEN 1 ELSE 0))
    /\ [][pc = "post_request" => test_result' = test_result]_vars

\* C34 (as claimed): every descriptor passed to execute_request for the
\* current case (pre-request, main request, mission turns, post-request)
\* carries the tracing identifier of the case, which is not empty; once the
\* identifier is persisted it stands on the record the case was read from;
\* and no two records of the run hold the same identifier.
C34_OneTracingIdPerCase ==
    /\ InCase
        => /\ tracing_id # 0
           /\ calls.tracing_ids \subseteq {tracing_id}
    /\ pc = "store_progress" => case_docs[test_case.ordinal].tracing_id = tracing_id
    /\ \A k \in DOMAIN case_docs, m \in DOMAIN case_docs :
        (k # m /\ case_docs[k].tracing_id # 0)
            => case_docs[k].tracing_id # case_docs[m].tracing_id

\* C35: a mission of budget D in which every request succeeds and
\* is_mission_done never says yes leaves the loop after D turns, with D
\* requests executed and 2D history entries; the loop leaves no outcome
\* (neither Error nor Failed), and the status of the returned result is the
\* overall_success of the final assessment.
C35_ExhaustedAfterDTurns ==
    calls.loop_exit = "Exhausted"
        => LET D == run_data.mission_duration
           IN  /\ calls.exit_turn = D
               /\ calls.ask = D /\ calls.request = D /\ calls.done = D
               /\ Len(calls.exit_history) = 2 * D
               /\ pc = "m_evaluate"
                    => /\ mission_result.status \notin {"Error", "Failed"}
                       /\ conversation_history = calls.exit_history
                       /\ Len(request_response_history) = D
               /\ pc = "post_request"
                    => /\ test_result.loop_status \notin {"Error", "Failed"}
                       /\ test_result.loop_error = None
                       /\ test_result.turns_x2 = 2 * D
                       /\ \A j \in 1..D :
                            ~ReportsFailure(test_result.payloads[j].response)
                       /\ test_result.assessment \in OverallSuccess
                            => test_result.status = test_result.assessment

\* A mission of budget 2 used up its two turns and was assessed as partially
\* successful.
C35_Witness ==
    /\ calls.loop_exit = "Exhausted"
    /\ run_data.mission_duration = 2
    /\ pc = "post_request"
    /\ calls.request = 2
    /\ test_result.turns_x2 = 4
    /\ test_result.loop_status = None
    /\ test_result.status = "Partially Successful"

\* The query the judge proposed in turn j (from 1) of the current mission:
\* the content of the j-th user entry.
ProposedIn(j) == IndexText(conversation_history[2 * j - 1].query)

\* C36: every mission turn substitutes the proposed query into the request
\* template of the test case, which the substitution leaves as it was, its
\* placeholder included: the request executed in turn k holds the query
\* proposed in turn k, no placeholder, and no query of an earlier turn.
C36_QuerySubstitutedIntoTemplate ==
    /\ InCase
        => /\ test_case.request = RequestTemplate
           /\ Contains(test_case.request, Placeholder)
    /\ \A k \in 1..Len(request_response_history) :
        LET request == request_response_history[k].request
        IN  /\ Contains(request, ProposedIn(k))
            /\ ~Contains(request, Placeholder)
            /\ \A j \in 1..(k - 1) : ~Contains(request, ProposedIn(j))

\* The second turn of a mission executed its request, which holds the second
\* query.
C36_Witness ==
    /\ pc = "m_done"
    /\ Len(request_response_history) = 2
    /\ request_response_history[1].request # request_response_history[2].request
    /\ Contains(request_response_history[2].request, IndexText(QueryOfTurn(1)))
    /\ test_case.request = RequestTemplate

\* C37 (as claimed): a single-shot case is classified as a failed request
\* only if execute_request saw a transport error or a status that is not
\* 2xx: a 2xx response whose JSON body holds a field status with the value
\* Failed is a successful response, to which the output field filter and the
\* golden comparison are applied.
C37_FailedOnlyOnTransportFailure ==
    (/\ invocation.fn = "execute_test_run"
     /\ ~invocation.response.raised
     /\ invocation.response.status_code = 200
     /\ invocation.response.result = "StatusFailed")
        => invocation.out.result.error # "API request failed"

\* The text without the characters c.
Without(text, c) == SelectSeq(text, LAMBDA ch : ch # c)

\* The positions (from 1) of the first "{" and the last "}" of a text that
\* holds them.
FirstOpen(x) == CHOOSE p \in 1..Len(x) : x[p] = "{" /\ \A q \in 1..(p - 1) : x[q] # "{"
LastClose(x) ==
    CHOOSE p \in 1..Len(x) : x[p] = "}" /\ \A q \in (p + 1)..Len(x) : x[q] # "}"

\* The text has a "{" and a "}", and its last "}" does not precede its
\* first "{".
HasBracePair(x) == Has(x, "{") /\ Has(x, "}") /\ FirstOpen(x) < LastClose(x)

\* C38 (as claimed): cleanup_json returns the part of the text from its
\* first "{" to its last "}", both included, without its single quotes and
\* its newlines; it returns None when the text has no "{", no "}", or its
\* last "}" before its first "{".
C38_BracePartWithoutQuotesAndNewlines ==
    invocation.fn = "cleanup_json"
        => LET x == invocation.x
           IN  IF HasBracePair(x)
               THEN /\ invocation.out.found
                    /\ invocation.out.text =
                        Without(Without(SubSeq(x, FirstOpen(x), LastClose(x)),
                                        "'"), "\n")
               ELSE invocation.out = NotFound

\* C38 (amended): the same, but every newline of that part is replaced by a
\* space, not removed.
C38_BracePartWithSpacesForNewlines ==
    invocation.fn = "cleanup_json"
        => LET x == invocation.x
               part == Without(SubSeq(x, FirstOpen(x), LastClose(x)), "'")
           IN  IF HasBracePair(x)
               THEN /\ invocation.out.found
                    /\ invocation.out.text =
                        [p \in 1..Len(part) |->
                            IF part[p] = "\n" THEN " " ELSE part[p]]
               ELSE invocation.out = NotFound

\* Prose, then a brace pair with a quote and a newline in it.
C38_Witness ==
    /\ invocation.fn = "cleanup_json"
    /\ invocation.x = <<"a", "{", "'", "\n", "}">>
    /\ invocation.out = FoundText(<<"{", " ", "}">>)

RECURSIVE WithoutMarkers(_)
\* The text without its reference markers: a marker is a "[", the first "]"
\* after it, and what is between them.
WithoutMarkers(text) ==
    IF ~Has(text, "[") THEN text
    ELSE LET open == Find(text, "[")
             rest == SubSeq(text, open + 1, Len(text))
         IN  IF ~Has(rest, "]") THEN text
             ELSE SubSeq(text, 1, open - 1)
                    \o WithoutMarkers(SubSeq(rest, Find(rest, "]") + 1, Len(rest)))

\* Every "[" of the text is the start of a marker.
EveryBracketCloses(text) == ~Has(WithoutMarkers(text), "[")

\* C39 (as claimed): strip_references removes the bracketed reference
\* markers of a statement and nothing else, keeping every other character
\* in its place: a statement without "[" is returned as it is, and the text
\* after the last marker is kept in full. (Stated for the statements in
\* which every "[" is closed by a "]".)
C39_OnlyMarkersAreRemoved ==
    (invocation.fn = "strip_references" /\ EveryBracketCloses(invocation.statement))
        => invocation.out = WithoutMarkers(invocation.statement)

====
